---- MODULE Spec2Model ----
(***************************************************************************)
(* Model of the ConfigCat Rust SDK config service (src/src/fetch/service.rs)*)
(* with the cache codec and override merge of src/src/model/config.rs and   *)
(* the refresh / offline facade of src/src/client.rs; of the evaluator     *)
(* (src/src/eval/evaluator.rs) under get_value_details; and of the fetcher  *)
(* (src/src/fetch/fetcher.rs) with the records it logs.                     *)
(*                                                                          *)
(* Strings are sequences of one-character strings.  A config JSON document  *)
(* is one token: "P" and "Q" are documents serde accepts, "X" is one it     *)
(* rejects.  Time is an integer number of milliseconds.                     *)
(***************************************************************************)
EXTENDS Integers, Sequences, FiniteSets, TLC

\* ------------------------------------------------------------------ bounds
MaxTime == 2
MaxExtWrites == 1
MaxCalls == 2

\* poll interval of AutoPoll(interval) and cache TTL of LazyLoad(ttl), in ms
Interval == 2

\* stand-ins for chrono's DateTime::<Utc>::MIN_UTC / MAX_UTC, outside every
\* time the model reaches
MIN_UTC == -1000
MAX_UTC == 1000

Callers == {"c1", "c2"}
PollTask == "poll"
Tasks == Callers \cup {PollTask}

Modes == {"AutoPoll", "LazyLoad", "Manual"}
Behaviors == {"None", "LocalOnly", "LocalOverRemote", "RemoteOverLocal"}

\* ------------------------------------------------------------------ strings
NL == "\n"
Digits == <<"0", "1", "2", "3", "4", "5", "6", "7", "8", "9">>

DigitVal(c) == (CHOOSE i \in 1..10 : Digits[i] = c) - 1

RECURSIVE NatToString(_)
NatToString(n) ==
    IF n < 10 THEN <<Digits[n + 1]>>
    ELSE NatToString(n \div 10) \o <<Digits[(n % 10) + 1]>>

\* variant: the sign is not written
to_string_unsigned(n) == IF n < 0 THEN NatToString(0 - n) ELSE NatToString(n)

\* i64::to_string
to_string(n) == IF n < 0 THEN <<"-">> \o NatToString(0 - n) ELSE NatToString(n)

RECURSIVE DigitsToNat(_)
DigitsToNat(s) ==
    IF s = <<>> THEN 0
    ELSE 10 * DigitsToNat(SubSeq(s, 1, Len(s) - 1)) + DigitVal(s[Len(s)])

AllDigits(s) == s # <<>> /\ \A i \in 1..Len(s) : \E d \in 1..10 : Digits[d] = s[i]

\* str::parse::<i64>: optional sign, then at least one digit
parse_i64(s) ==
    IF s # <<>> /\ s[1] \in {"+", "-"}
    THEN IF AllDigits(Tail(s))
         THEN [ok |-> TRUE,
               val |-> IF s[1] = "-" THEN 0 - DigitsToNat(Tail(s)) ELSE DigitsToNat(Tail(s))]
         ELSE [ok |-> FALSE, val |-> 0]
    ELSE IF AllDigits(s)
         THEN [ok |-> TRUE, val |-> DigitsToNat(s)]
         ELSE [ok |-> FALSE, val |-> 0]

\* str::find(ch): 1-based index of the first occurrence, 0 when absent
find(s, ch) ==
    IF \E i \in 1..Len(s) : s[i] = ch
    THEN CHOOSE i \in 1..Len(s) : s[i] = ch /\ \A j \in 1..(i - 1) : s[j] # ch
    ELSE 0

\* ------------------------------------------------------------- config model
Keys == {"ka", "kb", "kc"}

\* Config.settings of a document the JSON decoder accepts
DocSettings(json) ==
    IF json = <<"P">> THEN [k \in {"ka", "kb"} |-> "remoteP"]
    ELSE IF json = <<"Q">> THEN [k \in {"ka"} |-> "remoteQ"]
    ELSE [k \in {} |-> "none"]

ValidDocs == {<<"P">>, <<"Q">>}

\* serde_json::from_str::<Config>
serde_from_str(json) == [ok |-> json \in ValidDocs, settings |-> DocSettings(json)]

\* ov.source().settings(): the override source's map
OverrideSettings == [k \in {"kb", "kc"} |-> "local"]

NoSettings == [k \in {} |-> "none"]

\* HashMap::extend: entries of b are inserted into a, replacing equal keys
extend(a, b) ==
    [k \in (DOMAIN a) \cup (DOMAIN b) |-> IF k \in DOMAIN b THEN b[k] ELSE a[k]]

\* ConfigEntry::default
DefaultEntry ==
    [config |-> NoSettings, cache_str |-> <<>>, etag |-> <<>>, fetch_time |-> MIN_UTC]

\* ConfigEntry::local
LocalEntry ==
    [config |-> NoSettings, cache_str |-> <<"l", "o", "c", "a", "l">>,
     etag |-> <<"l", "o", "c", "a", "l">>, fetch_time |-> MIN_UTC]

\* impl PartialEq for ConfigEntry: entries are equal when their etags are
entry_eq(a, b) == a.etag = b.etag

is_empty(e) == e.etag = <<>> /\ e.cache_str = <<>>

\* ConfigEntry::is_expired at wall-clock time t
is_expired(e, duration, t) == t - duration > e.fetch_time

generate_cache_str(time, etag, json) == to_string(time) \o <<NL>> \o etag \o <<NL>> \o json

\* variant: the fetch time is bumped but the cache string is not regenerated
set_fetch_time_stale_str(e, fetch_time) ==
    IF find(e.cache_str, NL) = 0 THEN e ELSE [e EXCEPT !.fetch_time = fetch_time]

\* ConfigEntry::set_fetch_time: a cache_str without two newlines is left alone
set_fetch_time(e, fetch_time) ==
    LET time_index == find(e.cache_str, NL)
        without_time == SubSeq(e.cache_str, time_index + 1, Len(e.cache_str))
        etag_index == find(without_time, NL)
        config_json == SubSeq(without_time, etag_index + 1, Len(without_time))
    IN  IF time_index = 0 THEN e
        ELSE IF etag_index = 0 THEN e
        ELSE [e EXCEPT !.fetch_time = fetch_time,
                       !.cache_str = generate_cache_str(fetch_time, e.etag, config_json)]

entry_from_json(json, etag, fetch_time) ==
    LET parsed == serde_from_str(json)
    IN  IF parsed.ok
        THEN [ok |-> TRUE,
              entry |-> [config |-> parsed.settings,
                         etag |-> etag,
                         fetch_time |-> fetch_time,
                         cache_str |-> generate_cache_str(fetch_time, etag, json)]]
        ELSE [ok |-> FALSE, entry |-> DefaultEntry]

\* variant: every number of milliseconds is a time
from_timestamp_millis_unbounded(t) == [ok |-> TRUE, val |-> t]

\* DateTime::from_timestamp_millis: None outside chrono's representable range
from_timestamp_millis(t) == [ok |-> t > MIN_UTC /\ t < MAX_UTC, val |-> t]

entry_from_cached_json(cached_json) ==
    LET time_index == find(cached_json, NL)
        without_time == SubSeq(cached_json, time_index + 1, Len(cached_json))
        etag_index == find(without_time, NL)
        time_string == SubSeq(cached_json, 1, time_index - 1)
        time == parse_i64(time_string)
        fetch_time == from_timestamp_millis(time.val)
        config_json == SubSeq(without_time, etag_index + 1, Len(without_time))
        etag == SubSeq(without_time, 1, etag_index - 1)
    IN  IF time_index = 0 THEN [ok |-> FALSE, entry |-> DefaultEntry]
        ELSE IF etag_index = 0 THEN [ok |-> FALSE, entry |-> DefaultEntry]
        ELSE IF ~time.ok THEN [ok |-> FALSE, entry |-> DefaultEntry]
        ELSE IF ~fetch_time.ok THEN [ok |-> FALSE, entry |-> DefaultEntry]
        ELSE entry_from_json(config_json, etag, fetch_time.val)

\* variant: the two merge directions exchanged
process_overrides_swapped(e, beh) ==
    IF beh = "LocalOverRemote"
    THEN [e EXCEPT !.config = extend(OverrideSettings, e.config)]
    ELSE IF beh = "RemoteOverLocal"
    THEN [e EXCEPT !.config = extend(e.config, OverrideSettings)]
    ELSE e

\* process_overrides with options.overrides() of the given behavior
process_overrides(e, beh) ==
    IF beh = "LocalOverRemote"
    THEN [e EXCEPT !.config = extend(e.config, OverrideSettings)]
    ELSE IF beh = "RemoteOverLocal"
    THEN [e EXCEPT !.config = extend(OverrideSettings, e.config)]
    ELSE e

\* OptionalOverrides::is_local
is_local(beh) == beh = "LocalOnly"

\* ---------------------------------------------------------------- the state
VARIABLES
    polling_mode,   \* Options.polling_mode
    opt_offline,    \* Options.offline, the builder's setting
    behavior,       \* behavior of Options.overrides, "None" without overrides
    now,            \* wall clock, Utc::now()
    cached_entry,   \* ServiceState.cached_entry, guarded by its mutex
    cache,          \* what options.cache().read(cache_key) returns, <<>> for None
    offline,        \* ServiceState.offline
    initialized,    \* ServiceState.initialized
    init,           \* ServiceState.init, the Once: TRUE when it has run
    init_wait,      \* ServiceState.init_wait, the semaphore's free permits
    cancelled,      \* ConfigService.cancellation_token
    pc,             \* where each task stands
    call,           \* the arguments of each task's running call
    next_tick,      \* when the polling task's interval timer fires next
    ext_writes,     \* number of writes other processes made to the cache
    calls,          \* number of caller operations started so far
    last,           \* what the call that returned in the last step returned
    first_fetch,    \* how the fetch_if_older call that fired the init signal ended
    evaluation,     \* the flag evaluation under way: its arguments and its result
    codec,          \* the cache string under conversion and what it converted to
    fetcher         \* the Fetcher during a fetch: its URL, its iteration, its log

\* the state of the components the config service does not touch
others == <<evaluation, codec, fetcher>>

\* those components at rest
others_idle == evaluation = "none" /\ codec = "none" /\ fetcher = "none"

vars == <<polling_mode, opt_offline, behavior, now, cached_entry, cache, offline,
          initialized, init, init_wait, cancelled, pc, call, next_tick,
          ext_writes, calls, last, first_fetch, others>>

options == <<polling_mode, opt_offline, behavior>>

NoCall ==
    [op |-> "none", threshold |-> MIN_UTC, prefer_cached |-> FALSE,
     offline_at_call |-> FALSE, ext_during |-> FALSE]

\* last is NoLast except in the state a call has just returned into
NoLast ==
    [task |-> "none", op |-> "none", status |-> "none", outcome |-> "none",
     config |-> NoSettings, fetch_time |-> MIN_UTC, before |-> DefaultEntry,
     written |-> FALSE, offline_at_call |-> FALSE, ext_during |-> FALSE]

\* first_fetch unless the init signal was fired by a failed fetch that started
\* from a non-empty entry older than the interval
NoFirst == "none"

\* variant: the guard is released before the fetcher is called
LockFree_released_early == TRUE

\* the entry mutex is held from the cache sync to the end of fetch_if_older
LockFree == \A p \in Tasks : pc[p] \notin {"send", "http"}

\* ConfigService::new: the polling task is spawned only for an online,
\* non-local AutoPoll service; every other service fires the init signal
new_starts_poll(mode, off, beh) == mode = "AutoPoll" /\ ~off /\ ~is_local(beh)

Init ==
    /\ polling_mode \in Modes
    /\ opt_offline \in BOOLEAN
    /\ behavior \in Behaviors
    /\ now = 0
    /\ cached_entry = DefaultEntry
    /\ cache = <<>>
    /\ offline = opt_offline
    /\ initialized = ~new_starts_poll(polling_mode, opt_offline, behavior)
    /\ init = ~new_starts_poll(polling_mode, opt_offline, behavior)
    /\ init_wait = IF new_starts_poll(polling_mode, opt_offline, behavior) THEN 0 ELSE 1
    /\ cancelled = FALSE
    /\ pc = [p \in Tasks |->
                IF p = PollTask
                THEN IF new_starts_poll(polling_mode, opt_offline, behavior)
                     THEN "idle" ELSE "none"
                ELSE "idle"]
    /\ call = [p \in Tasks |-> NoCall]
    /\ next_tick = 0
    /\ ext_writes = 0
    /\ calls = 0
    /\ last = NoLast
    /\ first_fetch = NoFirst
    /\ others_idle

\* ServiceState::initialized: the Once lets the closure run a single time
state_initialized ==
    IF init
    THEN UNCHANGED <<initialized, init, init_wait>>
    ELSE /\ initialized' = TRUE
         /\ init_wait' = init_wait + 1
         /\ init' = TRUE

\* first_fetch after a fetch_if_older call: the outcome of the call when it
\* fires the init signal of an AutoPoll service by a failure, having started
\* from a non-empty entry older than the interval; the value is kept for as
\* long as the entry stays what that call left
first_fetch_record(outcome, before, after, t) ==
    IF ~init
    THEN IF /\ polling_mode = "AutoPoll"
            /\ outcome \in {"FailedTransient", "FailedPermanent"}
            /\ ~is_empty(before)
            /\ is_expired(before, Interval, t)
         THEN outcome
         ELSE NoFirst
    ELSE IF after = before THEN first_fetch ELSE NoFirst

\* the task's call returns: callers and the polling loop go back to waiting
Return(p, rec) ==
    /\ pc' = [pc EXCEPT ![p] = "idle"]
    /\ call' = [call EXCEPT ![p] = NoCall]
    /\ last' = rec

Completed(p, status, outcome, config, fetch_time, before, written) ==
    [task |-> p, op |-> call[p].op, status |-> status, outcome |-> outcome,
     config |-> config, fetch_time |-> fetch_time, before |-> before,
     written |-> written, offline_at_call |-> call[p].offline_at_call,
     ext_during |-> call[p].ext_during]

\* ------------------------------------------------------------- environment
Tick ==
    /\ now < MaxTime
    /\ now' = now + 1
    /\ last' = NoLast
    /\ UNCHANGED <<others, first_fetch>>
    /\ UNCHANGED <<options, cached_entry, cache, offline, initialized, init, init_wait,
                   cancelled, pc, call, next_tick, ext_writes, calls>>

\* what another process sharing the cache may store under the cache key: a
\* cache string it generated at time t, one it generated more than an interval
\* ago, one with a zero-padded timestamp, one whose JSON does not parse
ExternalStrings(t) ==
    { generate_cache_str(t, <<"a">>, <<"P">>),
      generate_cache_str(t, <<"b">>, <<"Q">>),
      generate_cache_str(t - Interval - 1, <<"b">>, <<"Q">>),
      <<"0">> \o generate_cache_str(t, <<"a">>, <<"P">>),
      generate_cache_str(t, <<"a">>, <<"X">>) }

ExternalCacheWrite(s) ==
    /\ ext_writes < MaxExtWrites
    /\ cache' = s
    /\ ext_writes' = ext_writes + 1
    /\ call' = [p \in Tasks |->
                  IF pc[p] \in {"send", "http"}
                  THEN [call[p] EXCEPT !.ext_during = TRUE] ELSE call[p]]
    /\ last' = NoLast
    /\ UNCHANGED <<others, first_fetch>>
    /\ UNCHANGED <<options, now, cached_entry, offline, initialized, init, init_wait,
                   cancelled, pc, next_tick, calls>>

\* ------------------------------------------------------------------ facade
\* ConfigService::set_mode, reached through Client::offline / Client::online
set_mode(off) ==
    /\ ~cancelled
    /\ offline' = off
    /\ last' = NoLast
    /\ UNCHANGED <<others, first_fetch>>
    /\ UNCHANGED <<options, now, cached_entry, cache, initialized, init, init_wait,
                   cancelled, pc, call, next_tick, ext_writes, calls>>

\* ConfigService::close, whose only caller is Drop: the service is dropped
\* when no borrow of it is left, that is when no caller operation is running
close ==
    /\ ~cancelled
    /\ \A p \in Callers : pc[p] = "idle"
    /\ cancelled' = TRUE
    /\ last' = NoLast
    /\ UNCHANGED <<others, first_fetch>>
    /\ UNCHANGED <<options, now, cached_entry, cache, offline, initialized, init,
                   init_wait, pc, call, next_tick, ext_writes, calls>>

\* a caller may start an operation while the service lives; "c1" is the
\* application's main task, "c2" a second task that waits for readiness
\* while "c1" is busy
CanCall(p) ==
    /\ p \in Callers
    /\ pc[p] = "idle"
    /\ ~cancelled
    /\ calls < MaxCalls
    /\ p = "c2" => pc["c1"] # "idle"

\* ConfigService::config up to the await of fetch_if_older: the threshold and
\* prefer_cached are computed before the entry mutex is awaited
config_threshold(mode, inited, t) ==
    IF mode = "LazyLoad" THEN t - Interval
    ELSE IF mode = "AutoPoll" /\ ~inited THEN t - Interval
    ELSE MIN_UTC

\* variant: prefer_cached is false in every mode
config_prefer_cached_never(mode, inited) == FALSE

config_prefer_cached(mode, inited) == IF mode = "LazyLoad" THEN FALSE ELSE inited

config(p) ==
    /\ CanCall(p)
    /\ calls' = calls + 1
    /\ pc' = [pc EXCEPT ![p] = "lock"]
    /\ call' = [call EXCEPT ![p] =
                  [NoCall EXCEPT
                     !.op = "config",
                     !.threshold = config_threshold(polling_mode, initialized, now),
                     !.prefer_cached = config_prefer_cached(polling_mode, initialized)]]
    /\ last' = NoLast
    /\ UNCHANGED <<others, first_fetch>>
    /\ UNCHANGED <<options, now, cached_entry, cache, offline, initialized, init,
                   init_wait, cancelled, next_tick, ext_writes>>

\* the guard of Client::refresh: "offline" when the OfflineClient error is
\* returned, "local" for LocalOnlyClient, "go" when the service is asked
refresh_guard(opt_off, beh) ==
    IF opt_off THEN "offline" ELSE IF is_local(beh) THEN "local" ELSE "go"

\* Client::refresh, then ConfigService::refresh up to the await
refresh(p) ==
    /\ CanCall(p)
    /\ calls' = calls + 1
    /\ LET g == refresh_guard(opt_offline, behavior)
       IN  IF g = "go"
           THEN /\ pc' = [pc EXCEPT ![p] = "lock"]
                /\ call' = [call EXCEPT ![p] =
                              [NoCall EXCEPT !.op = "refresh", !.threshold = MAX_UTC,
                                             !.offline_at_call = offline]]
                /\ last' = NoLast
           ELSE /\ last' = [NoLast EXCEPT
                              !.task = p, !.op = "refresh",
                              !.status = IF g = "offline" THEN "OfflineClient"
                                         ELSE "LocalOnlyClient",
                              !.before = cached_entry, !.offline_at_call = offline]
                /\ UNCHANGED <<pc, call>>
    /\ UNCHANGED <<others, first_fetch>>
    /\ UNCHANGED <<options, now, cached_entry, cache, offline, initialized, init,
                   init_wait, cancelled, next_tick, ext_writes>>

\* ------------------------------------------------------------ polling task
\* start_poll's loop: the interval's tick branch of select!
poll_tick ==
    /\ pc[PollTask] = "idle"
    /\ now >= next_tick
    /\ next_tick' = next_tick + Interval
    /\ pc' = [pc EXCEPT ![PollTask] = "lock"]
    /\ call' = [call EXCEPT ![PollTask] =
                  [NoCall EXCEPT !.op = "poll", !.threshold = now - (Interval \div 2)]]
    /\ last' = NoLast
    /\ UNCHANGED <<others, first_fetch>>
    /\ UNCHANGED <<options, now, cached_entry, cache, offline, initialized, init,
                   init_wait, cancelled, ext_writes, calls>>

\* start_poll's loop: the token.cancelled() branch of select!
poll_cancelled ==
    /\ pc[PollTask] = "idle"
    /\ cancelled
    /\ pc' = [pc EXCEPT ![PollTask] = "stopped"]
    /\ last' = NoLast
    /\ UNCHANGED <<others, first_fetch>>
    /\ UNCHANGED <<options, now, cached_entry, cache, offline, initialized, init,
                   init_wait, cancelled, call, next_tick, ext_writes, calls>>

\* ---------------------------------------------------------- fetch_if_older
\* read_cache: None when the cache is empty, equal to the in-memory string,
\* or unparseable; otherwise the parsed entry with the overrides applied
read_cache(cached, from_memory_str, beh) ==
    LET parsed == entry_from_cached_json(cached)
    IN  IF cached = <<>> \/ cached = from_memory_str
        THEN [some |-> FALSE, entry |-> DefaultEntry]
        ELSE IF parsed.ok
        THEN [some |-> TRUE, entry |-> process_overrides(parsed.entry, beh)]
        ELSE [some |-> FALSE, entry |-> DefaultEntry]

\* the event ids read_cache logs: warning 2201 when the string it goes on to
\* parse is rejected
read_cache_log(cached, from_memory_str) ==
    IF cached = <<>> \/ cached = from_memory_str THEN <<>>
    ELSE IF entry_from_cached_json(cached).ok THEN <<>>
    ELSE <<2201>>

\* the cache sync of fetch_if_older and determine_cache_state:
\* read_cache(..).unwrap_or_default(), taken over when non-empty and unequal
cache_sync(e, cached, beh) ==
    LET r == read_cache(cached, e.cache_str, beh)
        from_cache == IF r.some THEN r.entry ELSE DefaultEntry
    IN  IF ~is_empty(from_cache) /\ ~entry_eq(e, from_cache) THEN from_cache ELSE e

\* variant: the LocalOnly entry is built without the override settings
local_entry_unfilled(e) == IF is_empty(e) THEN LocalEntry ELSE e

\* the entry LocalOnly overrides synthesize on the first call
local_entry(e) ==
    IF is_empty(e) THEN [LocalEntry EXCEPT !.config = OverrideSettings] ELSE e

\* variant: an entry fetched exactly at the threshold is served too
serves_current_inclusive(e, threshold, off, prefer_cached) ==
    e.fetch_time >= threshold \/ off \/ prefer_cached

\* whether fetch_if_older returns the current entry without fetching
serves_current(e, threshold, off, prefer_cached) ==
    e.fetch_time > threshold \/ off \/ prefer_cached

\* fetch_if_older from the lock to the decision: LocalOnly short cut, cache
\* sync, then either return the current entry or go on to the fetcher
fetch_if_older_begin(p) ==
    /\ pc[p] = "lock"
    /\ LockFree
    /\ UNCHANGED <<others, options, now, cache, offline, cancelled, next_tick, ext_writes,
                   calls>>
    /\ IF is_local(behavior)
       THEN /\ cached_entry' = local_entry(cached_entry)
            /\ UNCHANGED <<initialized, init, init_wait, first_fetch>>
            /\ Return(p, Completed(p, "Ok", "local", cached_entry'.config, MIN_UTC,
                                   cached_entry, FALSE))
       ELSE /\ cached_entry' = cache_sync(cached_entry, cache, behavior)
            /\ IF serves_current(cached_entry', call[p].threshold, offline,
                                 call[p].prefer_cached)
               THEN /\ state_initialized
                    /\ first_fetch' = first_fetch_record("cached", cached_entry,
                                                         cached_entry', now)
                    /\ Return(p, Completed(p, "Ok", "cached", cached_entry'.config,
                                           cached_entry'.fetch_time, cached_entry, FALSE))
               ELSE /\ pc' = [pc EXCEPT ![p] = "send"]
                    /\ last' = NoLast
                    /\ first_fetch' = IF cached_entry' = cached_entry
                                       THEN first_fetch ELSE NoFirst
                    /\ UNCHANGED <<initialized, init, init_wait, call>>

\* state.fetcher.fetch(&entry.etag): the HTTP request leaves
fetch_send(p) ==
    /\ pc[p] = "send"
    /\ pc' = [pc EXCEPT ![p] = "http"]
    /\ last' = NoLast
    /\ UNCHANGED <<others, first_fetch>>
    /\ UNCHANGED <<options, now, cached_entry, cache, offline, initialized, init,
                   init_wait, cancelled, call, next_tick, ext_writes, calls>>

\* what Fetcher::fetch may return at time t: a parsed 200 with its ETag, a
\* 304, a non-transient or a transient failure
FetchResponses(t) ==
    { [kind |-> "Fetched", transient |-> FALSE,
       entry |-> entry_from_json(<<"P">>, <<"a">>, t).entry],
      [kind |-> "NotModified", transient |-> FALSE, entry |-> DefaultEntry],
      [kind |-> "Failed", transient |-> FALSE, entry |-> DefaultEntry],
      [kind |-> "Failed", transient |-> TRUE, entry |-> DefaultEntry] }

\* variant: every failure bumps the fetch time of a non-empty entry
entry_after_any_failure_bumps(e, resp, beh, t) ==
    IF resp.kind = "Fetched" THEN process_overrides(resp.entry, beh)
    ELSE IF resp.kind = "NotModified" THEN set_fetch_time(e, t)
    ELSE IF ~is_empty(e) THEN set_fetch_time(e, t)
    ELSE e

\* variant: a failed fetch gives the entry up
entry_after_failure_drops(e, resp, beh, t) ==
    IF resp.kind = "Fetched" THEN process_overrides(resp.entry, beh)
    ELSE IF resp.kind = "NotModified" THEN set_fetch_time(e, t)
    ELSE DefaultEntry

\* the entry after the response has been handled
entry_after(e, resp, beh, t) ==
    IF resp.kind = "Fetched" THEN process_overrides(resp.entry, beh)
    ELSE IF resp.kind = "NotModified" THEN set_fetch_time(e, t)
    ELSE IF ~resp.transient /\ ~is_empty(e) THEN set_fetch_time(e, t)
    ELSE e

\* variant: every failure on a non-empty entry writes the cache
writes_cache_any_failure(e, resp) ==
    resp.kind \in {"Fetched", "NotModified"} \/ ~is_empty(e)

\* variant: only a fetched or unmodified config writes the cache
writes_cache_success_only(e, resp) == resp.kind \in {"Fetched", "NotModified"}

\* whether the response makes fetch_if_older write the cache
writes_cache(e, resp) ==
    resp.kind \in {"Fetched", "NotModified"} \/ (~resp.transient /\ ~is_empty(e))

\* the outcome a response is recorded under
outcome_of(resp) ==
    IF resp.kind = "Failed"
    THEN IF resp.transient THEN "FailedTransient" ELSE "FailedPermanent"
    ELSE resp.kind

\* fetch_if_older after the fetcher returned: fire the init signal, handle the
\* response, write the cache, release the lock, return
fetch_if_older_response(p, resp) ==
    /\ pc[p] = "http"
    /\ state_initialized
    /\ cached_entry' = entry_after(cached_entry, resp, behavior, now)
    /\ cache' = IF writes_cache(cached_entry, resp) THEN cached_entry'.cache_str ELSE cache
    /\ first_fetch' = first_fetch_record(outcome_of(resp), cached_entry, cached_entry', now)
    /\ Return(p, Completed(p,
                           IF resp.kind = "Failed" THEN "FetchError" ELSE "Ok",
                           outcome_of(resp),
                           cached_entry'.config, cached_entry'.fetch_time, cached_entry,
                           writes_cache(cached_entry, resp)))
    /\ UNCHANGED <<others, options, now, offline, cancelled, next_tick, ext_writes, calls>>

\* ----------------------------------------------------------- wait_for_init
\* wait_for_init up to its first await: the latch is awaited only when the
\* initialized flag is not set
wait_for_init(p) ==
    /\ CanCall(p)
    /\ calls' = calls + 1
    /\ pc' = [pc EXCEPT ![p] = IF ~initialized THEN "acquire" ELSE "dcs"]
    /\ call' = [call EXCEPT ![p] = [NoCall EXCEPT !.op = "wait"]]
    /\ last' = NoLast
    /\ UNCHANGED <<others, first_fetch>>
    /\ UNCHANGED <<options, now, cached_entry, cache, offline, initialized, init,
                   init_wait, cancelled, next_tick, ext_writes>>

\* init_wait.acquire() completes: the task takes a permit
acquire_permit(p) ==
    /\ pc[p] = "acquire"
    /\ init_wait > 0
    /\ init_wait' = init_wait - 1
    /\ pc' = [pc EXCEPT ![p] = "permit"]
    /\ last' = NoLast
    /\ UNCHANGED <<others, first_fetch>>
    /\ UNCHANGED <<options, now, cached_entry, cache, offline, initialized, init,
                   cancelled, call, next_tick, ext_writes, calls>>

\* variant: the permit is forgotten instead of dropped
permits_after_forget(n) == n

\* the permits left once the statement `_ = ...acquire().await` has ended:
\* the SemaphorePermit is dropped there, which gives the permit back
permits_after_drop(n) == n + 1

drop_permit(p) ==
    /\ pc[p] = "permit"
    /\ init_wait' = permits_after_drop(init_wait)
    /\ pc' = [pc EXCEPT ![p] = "dcs"]
    /\ last' = NoLast
    /\ UNCHANGED <<others, first_fetch>>
    /\ UNCHANGED <<options, now, cached_entry, cache, offline, initialized, init,
                   cancelled, call, next_tick, ext_writes, calls>>

\* variant: freshness is looked at in every polling mode
cache_state_any_mode(e, mode, t) ==
    IF ~is_expired(e, Interval, t)
    THEN "HasUpToDateFlagData"
    ELSE IF is_empty(e) THEN "NoFlagData"
    ELSE "HasCachedFlagDataOnly"

\* the ClientCacheState determine_cache_state reports for the locked entry
cache_state(e, mode, t) ==
    IF mode \in {"AutoPoll", "LazyLoad"} /\ ~is_expired(e, Interval, t)
    THEN "HasUpToDateFlagData"
    ELSE IF is_empty(e) THEN "NoFlagData"
    ELSE "HasCachedFlagDataOnly"

\* determine_cache_state: LocalOnly answers without the lock; AutoPoll looks
\* at the entry as it is; the other modes sync with the cache first
determine_cache_state(p) ==
    /\ pc[p] = "dcs"
    /\ UNCHANGED <<others, first_fetch>>
    /\ UNCHANGED <<options, now, cache, offline, initialized, init, init_wait, cancelled,
                   next_tick, ext_writes, calls>>
    /\ IF is_local(behavior)
       THEN /\ UNCHANGED cached_entry
            /\ Return(p, Completed(p, "HasLocalOverrideFlagDataOnly", "none",
                                   cached_entry.config, cached_entry.fetch_time,
                                   cached_entry, FALSE))
       ELSE /\ LockFree
            /\ cached_entry' = IF polling_mode = "AutoPoll" THEN cached_entry
                               ELSE cache_sync(cached_entry, cache, behavior)
            /\ Return(p, Completed(p, cache_state(cached_entry', polling_mode, now), "none",
                                   cached_entry'.config, cached_entry'.fetch_time,
                                   cached_entry, FALSE))

\* variant: the expired deadline also aborts the fetches in progress
dropped_future_aborts_fetch(pcs, p) ==
    [q \in Tasks |-> IF q = p \/ pcs[q] \in {"send", "http"} THEN "idle" ELSE pcs[q]]

\* where the tasks stand once timeout has dropped p's wait_for_init future:
\* only p's own wait ends
dropped_future(pcs, p) == [pcs EXCEPT ![p] = "idle"]

\* Client::wait_for_ready: the deadline of tokio's timeout expires while
\* wait_for_init is suspended, on the latch or on the entry mutex; the
\* wait_for_init future is dropped and the ClientInitTimedOut error returned
wait_for_ready_timeout(p) ==
    /\ call[p].op = "wait"
    /\ \/ pc[p] = "acquire" /\ init_wait = 0
       \/ pc[p] = "dcs" /\ ~is_local(behavior) /\ ~LockFree
    /\ pc' = dropped_future(pc, p)
    /\ call' = [call EXCEPT ![p] = NoCall]
    /\ last' = [NoLast EXCEPT !.task = p, !.op = "wait",
                              !.status = "ClientInitTimedOut",
                              !.before = cached_entry]
    /\ UNCHANGED <<others, first_fetch>>
    /\ UNCHANGED <<options, now, cached_entry, cache, offline, initialized, init,
                   init_wait, cancelled, next_tick, ext_writes, calls>>

\* ------------------------------------------------------------ specification
Next ==
    \/ Tick
    \/ \E s \in ExternalStrings(now) : ExternalCacheWrite(s)
    \/ \E off \in BOOLEAN : set_mode(off)
    \/ close
    \/ config("c1")
    \/ refresh("c1")
    \/ \E p \in Callers : wait_for_init(p)
    \/ \E p \in Callers : acquire_permit(p)
    \/ \E p \in Callers : drop_permit(p)
    \/ \E p \in Callers : determine_cache_state(p)
    \/ \E p \in Callers : wait_for_ready_timeout(p)
    \/ poll_tick
    \/ poll_cancelled
    \/ \E p \in Tasks : fetch_if_older_begin(p)
    \/ \E p \in Tasks : fetch_send(p)
    \/ \E p \in Tasks : \E resp \in FetchResponses(now) : fetch_if_older_response(p, resp)

Spec == Init /\ [][Next]_vars

\* --------------------------------------------------------------- evaluator
\* Option<T>: <<>> is None, <<x>> is Some(x)
None == <<>>
Some(x) == <<x>>

SettingTypes == {"Bool", "String", "Int"}

\* SettingValue: one optional field per type
NoSettingValue == [bool_val |-> None, string_val |-> None, int_val |-> None]
BoolValue(v) == [NoSettingValue EXCEPT !.bool_val = Some(v)]
StringValue(v) == [NoSettingValue EXCEPT !.string_val = Some(v)]
IntValue(v) == [NoSettingValue EXCEPT !.int_val = Some(v)]

\* Value: the variant of the given type holding v
Value(tag, v) == [tag |-> tag, val |-> v]
NoValue == Value("None", "none")

\* SettingValue::as_val: the field of the setting's type, when it is set
as_val(sv, setting_type) ==
    LET field == IF setting_type = "Bool" THEN sv.bool_val
                 ELSE IF setting_type = "String" THEN sv.string_val
                 ELSE sv.int_val
    IN  IF field = None THEN None ELSE Some(Value(setting_type, field[1]))

\* T::from_value for the requested type T: as_bool / as_str / as_int
from_value(T, value) == IF value.tag = T THEN Some(value) ELSE None

\* T::default()
default_of(T) ==
    IF T = "Bool" THEN Value("Bool", "false")
    ELSE IF T = "String" THEN Value("String", "")
    ELSE Value("Int", "0")

\* ---- semantic versions
\* str::trim for the whitespace the model's strings contain
RECURSIVE trim(_)
trim(s) ==
    IF s = <<>> THEN s
    ELSE IF s[1] = " " THEN trim(Tail(s))
    ELSE IF s[Len(s)] = " " THEN trim(SubSeq(s, 1, Len(s) - 1))
    ELSE s

\* a numeric identifier of a version: digits without a leading zero
is_numeric_id(s) == AllDigits(s) /\ (Len(s) = 1 \/ s[1] # "0")

\* semver's Version::parse for MAJOR.MINOR.PATCH with an optional -PRERELEASE
Version_parse(s) ==
    LET dash == find(s, "-")
        core == IF dash = 0 THEN s ELSE SubSeq(s, 1, dash - 1)
        pre == IF dash = 0 THEN <<>> ELSE SubSeq(s, dash + 1, Len(s))
        dot1 == find(core, ".")
        major == SubSeq(core, 1, dot1 - 1)
        rest1 == SubSeq(core, dot1 + 1, Len(core))
        dot2 == find(rest1, ".")
        minor == SubSeq(rest1, 1, dot2 - 1)
        patch == SubSeq(rest1, dot2 + 1, Len(rest1))
        bad == [ok |-> FALSE, version |-> <<0, 0, 0, <<>>>>]
    IN  IF dot1 = 0 THEN bad
        ELSE IF dot2 = 0 THEN bad
        ELSE IF ~(is_numeric_id(major) /\ is_numeric_id(minor) /\ is_numeric_id(patch)) THEN bad
        ELSE IF dash # 0 /\ (pre = <<>> \/ find(pre, " ") # 0) THEN bad
        ELSE [ok |-> TRUE,
              version |-> <<DigitsToNat(major), DigitsToNat(minor), DigitsToNat(patch), pre>>]

\* utils::parse_semver: the build metadata after '+' is cut off before parsing
parse_semver(input) ==
    LET plus == find(input, "+")
    IN  Version_parse(IF plus = 0 THEN input ELSE SubSeq(input, 1, plus - 1))

\* ConditionResult.  With a result travel the cycle tracker as the evaluation
\* left it (the Vec the evaluator passes by mutable reference) and the
\* greatest length the tracker had on the way
Success(matched) ==
    [kind |-> "Success", matched |-> matched, err |-> <<>>, reached |-> None,
     tracker |-> <<>>, deepest |-> 0]
NoUser == [Success(FALSE) EXCEPT !.kind = "NoUser"]
AttrMissing == [Success(FALSE) EXCEPT !.kind = "AttrMissing"]
AttrInvalid == [Success(FALSE) EXCEPT !.kind = "AttrInvalid"]
CompValInvalid == [Success(FALSE) EXCEPT !.kind = "CompValInvalid"]
Fatal(err) == [Success(FALSE) EXCEPT !.kind = "Fatal", !.err = err]

\* variant: an unparseable entry is skipped and the loop goes on
RECURSIVE semver_loop_skipping(_, _, _, _, _)
semver_loop_skipping(comp_val, user_val, needs_true, i, matched) ==
    IF i > Len(comp_val) THEN Success(matched = needs_true)
    ELSE LET trimmed == trim(comp_val[i])
             comp_ver == parse_semver(trimmed)
         IN  IF trimmed = <<>> \/ ~comp_ver.ok
             THEN semver_loop_skipping(comp_val, user_val, needs_true, i + 1, matched)
             ELSE semver_loop_skipping(comp_val, user_val, needs_true, i + 1,
                                       matched \/ user_val = comp_ver.version)

\* the loop of eval_semver_is_one_of from item i on
RECURSIVE semver_loop(_, _, _, _, _)
semver_loop(comp_val, user_val, needs_true, i, matched) ==
    IF i > Len(comp_val) THEN Success(matched = needs_true)
    ELSE LET trimmed == trim(comp_val[i])
             comp_ver == parse_semver(trimmed)
         IN  IF trimmed = <<>>
             THEN semver_loop(comp_val, user_val, needs_true, i + 1, matched)
             ELSE IF ~comp_ver.ok THEN Success(FALSE)
             ELSE semver_loop(comp_val, user_val, needs_true, i + 1,
                              matched \/ user_val = comp_ver.version)

eval_semver_is_one_of(comp_val, user_val, comp) ==
    semver_loop(comp_val, user_val, comp = "OneOfSemver", 1, FALSE)

\* ---- percentage options
\* utils::sha1(key + attribute value)[..7] for the keys and attribute values
\* of the model
sha1_7 ==
    [flagA |-> [u0 |-> <<"3", "e", "8", "b", "b", "a", "9">>, u1 |-> <<"1", "9", "f", "c", "d", "4", "a">>,
                u2 |-> <<"9", "f", "c", "3", "9", "6", "f">>, u3 |-> <<"9", "6", "0", "9", "6", "1", "5">>],
     flagB |-> [u0 |-> <<"a", "5", "e", "1", "0", "b", "4">>, u1 |-> <<"3", "3", "a", "d", "5", "8", "f">>,
                u2 |-> <<"b", "9", "5", "b", "3", "1", "f">>, u3 |-> <<"5", "f", "4", "c", "f", "8", "5">>],
     pctRule |-> [u0 |-> <<"7", "2", "b", "9", "2", "3", "7">>, u1 |-> <<"5", "1", "7", "b", "0", "3", "3">>,
                  u2 |-> <<"5", "1", "2", "c", "3", "e", "8">>, u3 |-> <<"0", "2", "f", "8", "a", "c", "d">>],
     pctOnly |-> [u0 |-> <<"8", "e", "f", "5", "1", "c", "0">>, u1 |-> <<"d", "f", "b", "c", "c", "d", "7">>,
                  u2 |-> <<"d", "7", "8", "9", "e", "1", "5">>, u3 |-> <<"4", "1", "8", "0", "b", "d", "b">>]]

HexDigits == <<"0", "1", "2", "3", "4", "5", "6", "7", "8", "9", "a", "b", "c", "d", "e", "f">>
HexVal(c) == (CHOOSE i \in 1..16 : HexDigits[i] = c) - 1

\* i64::from_str_radix(hash, 16)
RECURSIVE from_str_radix_16(_)
from_str_radix_16(s) ==
    IF s = <<>> THEN 0
    ELSE 16 * from_str_radix_16(SubSeq(s, 1, Len(s) - 1)) + HexVal(s[Len(s)])

\* PercentageResult
PercentageSuccess(index, opt) ==
    [kind |-> "Success", index |-> index, opt |-> Some(opt), err |-> <<>>]
UserAttrMissing == [kind |-> "UserAttrMissing", index |-> 0, opt |-> None, err |-> <<>>]
PercentageFatal(err) == [kind |-> "Fatal", index |-> 0, opt |-> None, err |-> err]

SumLessThan100 == <<"Sum of percentage option percentages is less than 100">>

\* variant: the option is selected when the bucket equals its running sum too
RECURSIVE percentage_loop_inclusive(_, _, _, _)
percentage_loop_inclusive(opts, scaled, index, bucket) ==
    IF index > Len(opts) THEN PercentageFatal(SumLessThan100)
    ELSE IF scaled <= bucket + opts[index].percentage
    THEN PercentageSuccess(index, opts[index])
    ELSE percentage_loop_inclusive(opts, scaled, index + 1, bucket + opts[index].percentage)

\* the loop of eval_percentage: bucket is the running sum before option index
RECURSIVE percentage_loop(_, _, _, _)
percentage_loop(opts, scaled, index, bucket) ==
    IF index > Len(opts) THEN PercentageFatal(SumLessThan100)
    ELSE IF scaled < bucket + opts[index].percentage
    THEN PercentageSuccess(index, opts[index])
    ELSE percentage_loop(opts, scaled, index + 1, bucket + opts[index].percentage)

IDENTIFIER_ATTR == "Identifier"

\* eval_percentage for a user given as its attribute map
eval_percentage(opts, user, key, percentage_attr) ==
    LET attr == IF percentage_attr # None THEN percentage_attr[1] ELSE IDENTIFIER_ATTR
    IN  IF attr \notin DOMAIN user THEN UserAttrMissing
        ELSE percentage_loop(opts, from_str_radix_16(sha1_7[key][user[attr]]) % 100, 1, 0)

\* ---- settings
SETTING_VAL_INVALID_MSG == <<"Setting value is missing or invalid">>

\* Result<EvalResult, String>; reached is the SettingValue the evaluation
\* came to return, with the declared type of its setting, whether or not it
\* could be returned
EvalOk(value, setting_type, sv) ==
    [ok |-> TRUE, value |-> value, err |-> <<>>, setting_type |-> setting_type,
     reached |-> Some([value |-> sv, declared |-> setting_type]),
     tracker |-> <<>>, deepest |-> 0]
EvalErr(err, reached) ==
    [ok |-> FALSE, value |-> NoValue, err |-> err, setting_type |-> "None",
     reached |-> reached, tracker |-> <<>>, deepest |-> 0]

\* variant: the value is returned as whichever field is set
produce_result_unchecked(sv, setting_type) ==
    IF sv.bool_val # None THEN EvalOk(Value("Bool", sv.bool_val[1]), setting_type, sv)
    ELSE IF sv.string_val # None
    THEN EvalOk(Value("String", sv.string_val[1]), setting_type, sv)
    ELSE IF sv.int_val # None THEN EvalOk(Value("Int", sv.int_val[1]), setting_type, sv)
    ELSE EvalErr(SETTING_VAL_INVALID_MSG, Some([value |-> sv, declared |-> setting_type]))

produce_result(sv, setting_type) ==
    IF as_val(sv, setting_type) # None
    THEN EvalOk(as_val(sv, setting_type)[1], setting_type, sv)
    ELSE EvalErr(SETTING_VAL_INVALID_MSG, Some([value |-> sv, declared |-> setting_type]))

\* Condition with a UserCondition / with a PrerequisiteFlagCondition
UserCond(comp_attr, comparator, string_vec_val) ==
    [user_condition |-> Some([comp_attr |-> comp_attr, comparator |-> comparator,
                              string_vec_val |-> string_vec_val]),
     prerequisite_flag_condition |-> None]
PrerequisiteCond(flag_key, comparator, flag_value) ==
    [user_condition |-> None,
     prerequisite_flag_condition |-> Some([flag_key |-> flag_key,
                                           prerequisite_comparator |-> comparator,
                                           flag_value |-> flag_value])]

\* TargetingRule, PercentageOption, Setting
Rule(conditions, served_value, percentage_options) ==
    [conditions |-> Some(conditions), served_value |-> served_value,
     percentage_options |-> percentage_options]
Option(served_value, percentage) == [served_value |-> served_value, percentage |-> percentage]
Setting(setting_type, value, targeting_rules, percentage_options) ==
    [setting_type |-> setting_type, value |-> value, targeting_rules |-> targeting_rules,
     percentage_options |-> percentage_options, percentage_attribute |-> None]

\* eval_user_cond for the semantic-version list comparators
eval_user_cond(cond, user) ==
    IF cond.comp_attr \notin DOMAIN user THEN AttrMissing
    ELSE IF cond.string_vec_val = None THEN CompValInvalid
    ELSE IF ~parse_semver(user[cond.comp_attr]).ok THEN AttrInvalid
    ELSE eval_semver_is_one_of(cond.string_vec_val[1],
                               parse_semver(user[cond.comp_attr]).version,
                               cond.comparator)

\* impl Display for SettingValue: the first field that is set
display(sv) ==
    IF sv.bool_val # None THEN sv.bool_val[1]
    ELSE IF sv.string_val # None THEN sv.string_val[1]
    ELSE IF sv.int_val # None THEN sv.int_val[1]
    ELSE "<invalid value>"

\* the message of eval_prerequisite_cond for a comparison value that is not
\* of the prerequisite's type
type_mismatch_msg(cond) ==
    <<"Type mismatch between comparison value '", display(cond.flag_value),
      "' and prerequisite flag '", cond.flag_key, "'">>

\* variant: a comparison value of another type is a condition that does not
\* match
type_mismatch_no_match(cond) == Success(FALSE)

\* the return of eval_prerequisite_cond for a comparison value that is not of
\* the prerequisite's type
type_mismatch(cond) == Fatal(type_mismatch_msg(cond))

\* cycle_tracker.iter().map(|k| format!("'{k}'")).collect().join(" -> ")
RECURSIVE join_quoted(_)
join_quoted(keys) ==
    IF keys = <<>> THEN <<>>
    ELSE IF Len(keys) = 1 THEN <<"'", keys[1], "'">>
    ELSE <<"'", keys[1], "'", " -> ">> \o join_quoted(Tail(keys))

\* variant: the first element is not looked at
contains_after_first(seq, x) == \E i \in 2..Len(seq) : seq[i] = x

\* Vec::contains
contains(seq, x) == \E i \in 1..Len(seq) : seq[i] = x

\* ---- array comparators
\* utils::sha256(payload, salt, ctx_salt) for the payloads, the salt and the
\* context salt of the model: the digests of "red", of "blue" and of the
\* digest of "red", each followed by "salt" and "flag"
HashOfRed == "d59233dff8037579ff1730842c26a2d930776ac89eef9180b33c3e92ad7dc189"
HashOfBlue == "15ca87b250e6707866eb231ac12251ed7fd762cd44c5d2b3c55addc653e7155a"
HashOfHashOfRed == "fe44f7d04dd0b4fc6154b6b272ce239261506866ab8c57088db43b3c095c25cb"
sha256(payload, salt, ctx_salt) ==
    IF <<payload, salt, ctx_salt>> = <<"red", "salt", "flag">> THEN HashOfRed
    ELSE IF <<payload, salt, ctx_salt>> = <<"blue", "salt", "flag">> THEN HashOfBlue
    ELSE IF <<payload, salt, ctx_salt>> = <<HashOfRed, "salt", "flag">> THEN HashOfHashOfRed
    ELSE "digest of another payload"

\* UserComparator::is_sensitive for the array comparators
is_sensitive(comp) == comp \in {"ArrayContainsAnyOfHashed", "ArrayNotContainsAnyOfHashed"}

SALT_MISSING_MSG == <<"Config JSON salt is missing">>

\* the body of the loop of eval_array_contains for one item of the user's
\* list: a sensitive comparator without salt is fatal; with salt the item's
\* hash is looked for among the comparison values; then, for every
\* comparator, the item itself is looked for among them; rest is the result
\* of the items after it
array_item(comp_val, user_item, comp, needs_true, salt, ctx_salt, rest) ==
    IF is_sensitive(comp) /\ salt = None THEN Fatal(SALT_MISSING_MSG)
    ELSE IF is_sensitive(comp) /\ contains(comp_val, sha256(user_item, salt[1], ctx_salt))
    THEN Success(needs_true)
    ELSE IF contains(comp_val, user_item) THEN Success(needs_true)
    ELSE rest

\* the loop of eval_array_contains from item index of the user's list on
RECURSIVE array_loop(_, _, _, _, _, _, _)
array_loop(comp_val, user_val, comp, needs_true, salt, ctx_salt, index) ==
    IF index > Len(user_val) THEN Success(~needs_true)
    ELSE array_item(comp_val, user_val[index], comp, needs_true, salt, ctx_salt,
                    array_loop(comp_val, user_val, comp, needs_true, salt, ctx_salt, index + 1))

eval_array_contains(comp_val, user_val, comp, salt, ctx_salt) ==
    array_loop(comp_val, user_val, comp,
               IF is_sensitive(comp) THEN comp = "ArrayContainsAnyOfHashed"
               ELSE comp = "ArrayContainsAnyOf",
               salt, ctx_salt, 1)

\* variant: the revisited key is not appended to the reported chain
cycle_path_open(pushed, flag_key) == join_quoted(pushed)

\* the chain reported for a cycle: the tracker with the revisited key pushed
cycle_path(pushed, flag_key) == join_quoted(Append(pushed, flag_key))

\* a result with the tracker it leaves and the greatest length reached
at(result, tracker, deepest) == [result EXCEPT !.tracker = tracker, !.deepest = deepest]

\* a result of what followed a part of the evaluation in which the tracker
\* had reached the given length
deepen(result, deepest) ==
    [result EXCEPT !.deepest = IF deepest > result.deepest THEN deepest ELSE result.deepest]

\* variant: the tracker is left as the nested evaluation left it
pop_none(tracker) == tracker

\* Vec::pop
pop(tracker) == IF tracker = <<>> THEN tracker ELSE SubSeq(tracker, 1, Len(tracker) - 1)

\* the end of eval_prerequisite_cond: the tracker is popped after the nested
\* evaluation, then its Result is matched
prerequisite_outcome(result, needs_true, checked) ==
    at(IF result.ok THEN Success(needs_true = (result.value = checked[1]))
       ELSE [Fatal(result.err) EXCEPT !.reached = result.reached],
       pop(result.tracker), result.deepest)

\* what a PercentageResult makes of a rule or setting: the option's value, the
\* error, or (attribute missing) what comes next
percentage_outcome(percentage_result, setting_type, next, tracker, deepest) ==
    IF percentage_result.kind = "Success"
    THEN at(produce_result(percentage_result.opt[1].served_value, setting_type),
            tracker, deepest)
    ELSE IF percentage_result.kind = "Fatal"
    THEN at(EvalErr(percentage_result.err, None), tracker, deepest)
    ELSE next

RECURSIVE eval_setting(_, _, _, _, _)
RECURSIVE eval_rules(_, _, _, _, _, _)
RECURSIVE eval_conditions(_, _, _, _, _, _)
RECURSIVE eval_prerequisite_cond(_, _, _, _, _)

\* eval_prerequisite_cond once the prerequisite is known to exist: checked is
\* the comparison value as a value of the prerequisite's type, pushed the
\* tracker after cycle_tracker.push(key); a prerequisite found in it is
\* pushed too and the chain returned, otherwise the prerequisite is evaluated
\* on the pushed tracker
prerequisite_checked(cond, user, settings, cycle_tracker, pushed, checked) ==
    IF checked = None THEN at(type_mismatch(cond), cycle_tracker, Len(cycle_tracker))
    ELSE IF contains(pushed, cond.flag_key)
    THEN at(Fatal(cycle_path(pushed, cond.flag_key)),
            Append(pushed, cond.flag_key), Len(pushed) + 1)
    ELSE prerequisite_outcome(
             eval_setting(settings[cond.flag_key], cond.flag_key, user, settings, pushed),
             cond.prerequisite_comparator = "Eq", checked)

eval_prerequisite_cond(cond, key, user, settings, cycle_tracker) ==
    IF cond.flag_key \notin DOMAIN settings
    THEN at(Fatal(<<"Prerequisite flag is missing">>), cycle_tracker, Len(cycle_tracker))
    ELSE prerequisite_checked(cond, user, settings, cycle_tracker,
                              Append(cycle_tracker, key),
                              as_val(cond.flag_value, settings[cond.flag_key].setting_type))

\* the result of one condition
condition_result(condition, key, user, settings, cycle_tracker) ==
    IF condition.user_condition # None
    THEN at(IF user # None
            THEN eval_user_cond(condition.user_condition[1], user[1])
            ELSE NoUser,
            cycle_tracker, Len(cycle_tracker))
    ELSE IF condition.prerequisite_flag_condition # None
    THEN eval_prerequisite_cond(condition.prerequisite_flag_condition[1],
                                key, user, settings, cycle_tracker)
    ELSE at(Fatal(<<"Condition isn't a type of user, segment, or prerequisite flag condition">>),
            cycle_tracker, Len(cycle_tracker))

\* variant: the conditions after one that does not match are evaluated too
\* and the first of them that matches not decides
first_failing_last(cond_result, conditions, key, user, settings, index) ==
    IF cond_result.kind = "Success"
    THEN deepen(eval_conditions(conditions, key, user, settings, cond_result.tracker,
                                index + 1),
                cond_result.deepest)
    ELSE cond_result

\* the end of an iteration of eval_conditions: a condition that does not
\* match is returned, after one that matches the loop goes on with the
\* tracker as that condition left it
first_failing(cond_result, conditions, key, user, settings, index) ==
    IF cond_result.kind = "Success" /\ cond_result.matched
    THEN deepen(eval_conditions(conditions, key, user, settings, cond_result.tracker,
                                index + 1),
                cond_result.deepest)
    ELSE cond_result

\* eval_conditions from condition index on
eval_conditions(conditions, key, user, settings, cycle_tracker, index) ==
    IF index > Len(conditions) THEN at(Success(TRUE), cycle_tracker, Len(cycle_tracker))
    ELSE first_failing(
             condition_result(conditions[index], key, user, settings, cycle_tracker),
             conditions, key, user, settings, index)

\* the percentage options of the setting, then its default value
eval_setting_tail(setting, key, user, cycle_tracker) ==
    IF setting.percentage_options # None /\ user # None
    THEN percentage_outcome(
             eval_percentage(setting.percentage_options[1], user[1], key,
                             setting.percentage_attribute),
             setting.setting_type,
             at(produce_result(setting.value, setting.setting_type),
                cycle_tracker, Len(cycle_tracker)),
             cycle_tracker, Len(cycle_tracker))
    ELSE at(produce_result(setting.value, setting.setting_type),
            cycle_tracker, Len(cycle_tracker))

\* variant: without a user the percentage options of a matching rule end the
\* rules, and the setting's own percentage options and default come next
rule_outcome_falls_through(rule, setting, key, user, result, next) ==
    IF result.kind = "Success" /\ result.matched
    THEN IF rule.served_value # None
         THEN at(produce_result(rule.served_value[1], setting.setting_type),
                 result.tracker, result.deepest)
         ELSE IF rule.percentage_options = None
         THEN at(EvalErr(<<"Targeting rule THEN part is missing or invalid">>, None),
                 result.tracker, result.deepest)
         ELSE IF user = None THEN eval_setting_tail(setting, key, user, result.tracker)
         ELSE percentage_outcome(
                  eval_percentage(rule.percentage_options[1], user[1], key,
                                  setting.percentage_attribute),
                  setting.setting_type,
                  eval_setting_tail(setting, key, user, result.tracker),
                  result.tracker, result.deepest)
    ELSE IF result.kind = "Fatal"
    THEN at(EvalErr(result.err, result.reached), result.tracker, result.deepest)
    ELSE IF result.kind = "CompValInvalid"
    THEN at(EvalErr(<<"Comparison value is missing or invalid">>, None),
            result.tracker, result.deepest)
    ELSE next

\* variant: a condition with an invalid comparison value makes the rule be
\* skipped like one with a missing attribute
rule_outcome_skips_invalid(rule, setting, key, user, result, next) ==
    IF result.kind = "Success" /\ result.matched
    THEN IF rule.served_value # None
         THEN at(produce_result(rule.served_value[1], setting.setting_type),
                 result.tracker, result.deepest)
         ELSE IF rule.percentage_options = None
         THEN at(EvalErr(<<"Targeting rule THEN part is missing or invalid">>, None),
                 result.tracker, result.deepest)
         ELSE IF user = None THEN next
         ELSE percentage_outcome(
                  eval_percentage(rule.percentage_options[1], user[1], key,
                                  setting.percentage_attribute),
                  setting.setting_type, next, result.tracker, result.deepest)
    ELSE IF result.kind = "Fatal"
    THEN at(EvalErr(result.err, result.reached), result.tracker, result.deepest)
    ELSE next

\* the match on the result of a rule's conditions; next is the evaluation
\* from the rule after it on
rule_outcome(rule, setting, key, user, result, next) ==
    IF result.kind = "Success" /\ result.matched
    THEN IF rule.served_value # None
         THEN at(produce_result(rule.served_value[1], setting.setting_type),
                 result.tracker, result.deepest)
         ELSE IF rule.percentage_options = None
         THEN at(EvalErr(<<"Targeting rule THEN part is missing or invalid">>, None),
                 result.tracker, result.deepest)
         ELSE IF user = None THEN next
         ELSE percentage_outcome(
                  eval_percentage(rule.percentage_options[1], user[1], key,
                                  setting.percentage_attribute),
                  setting.setting_type, next, result.tracker, result.deepest)
    ELSE IF result.kind = "Fatal"
    THEN at(EvalErr(result.err, result.reached), result.tracker, result.deepest)
    ELSE IF result.kind = "CompValInvalid"
    THEN at(EvalErr(<<"Comparison value is missing or invalid">>, None),
            result.tracker, result.deepest)
    ELSE next

\* one iteration of the loop of eval_setting, result being what the rule's
\* conditions gave: the rules after it see the tracker as they left it
rule_step(rule, setting, key, user, settings, index, result) ==
    rule_outcome(rule, setting, key, user, result,
                 deepen(eval_rules(setting, key, user, settings, result.tracker, index + 1),
                        result.deepest))

\* the loop of eval_setting over the targeting rules from rule index on; a
\* rule without conditions is passed over
eval_rules(setting, key, user, settings, cycle_tracker, index) ==
    IF index > Len(setting.targeting_rules)
    THEN eval_setting_tail(setting, key, user, cycle_tracker)
    ELSE IF setting.targeting_rules[index].conditions = None
    THEN eval_rules(setting, key, user, settings, cycle_tracker, index + 1)
    ELSE rule_step(setting.targeting_rules[index], setting, key, user, settings, index,
                   eval_conditions(setting.targeting_rules[index].conditions[1], key, user,
                                   settings, cycle_tracker, 1))

eval_setting(setting, key, user, settings, cycle_tracker) ==
    eval_rules(setting, key, user, settings, cycle_tracker, 1)

\* eval: the evaluation starts with an empty cycle tracker
eval(setting, key, user, settings) == eval_setting(setting, key, user, settings, <<>>)

\* ErrorKind as its discriminant
ErrorKind ==
    [NoError |-> 0, HttpClientInitFailure |-> 1, ConfigJsonNotAvailable |-> 1000,
     SettingKeyMissing |-> 1001, EvaluationFailure |-> 1002, InvalidSdkKey |-> 1100,
     UnexpectedHttpResponse |-> 1101, HttpRequestTimeout |-> 1102,
     HttpRequestFailure |-> 1103, RedirectLoop |-> 1104,
     InvalidHttpResponseContent |-> 1105, InvalidHttpResponseWhenLocalCacheIsEmpty |-> 1106,
     SettingValueTypeMismatch |-> 2002, OfflineClient |-> 3200, LocalOnlyClient |-> 3202]

\* ClientError::new
ClientError(kind, message) == [kind |-> kind, message |-> message]

\* the match of eval_flag on the evaluator's result
flag_result(key, eval_result) ==
    IF eval_result.ok
    THEN [ok |-> TRUE, result |-> eval_result, err |-> ClientError("NoError", <<>>)]
    ELSE [ok |-> FALSE, result |-> eval_result,
          err |-> ClientError("EvaluationFailure",
                              <<"Failed to evaluate setting '", key, "' (">>
                              \o eval_result.err \o <<")">>)]

\* eval_flag: Result<EvalResult, ClientError>, with the evaluator's result kept
eval_flag(settings, key, user) ==
    IF DOMAIN settings = {}
    THEN [ok |-> FALSE, result |-> EvalErr(<<>>, None),
          err |-> ClientError("ConfigJsonNotAvailable",
                              <<"Config JSON is not present when evaluating setting '",
                                key, "'">>)]
    ELSE IF key \notin DOMAIN settings
    THEN [ok |-> FALSE, result |-> EvalErr(<<>>, None),
          err |-> ClientError("SettingKeyMissing",
                              <<"Failed to evaluate setting '", key,
                                "' (the key was not found in config JSON)">>)]
    ELSE flag_result(key, eval(settings[key], key, user, settings))

\* variant: the error is recorded but the details do not say default
from_err_not_default(val, key, err) ==
    [value |-> val, key |-> key, is_default_value |-> FALSE, error |-> Some(err)]

\* EvaluationDetails::from_err
from_err(val, key, err) ==
    [value |-> val, key |-> key, is_default_value |-> TRUE, error |-> Some(err)]

\* the match of get_value_details on the result of eval_flag
details_of(T, key, default, flag) ==
    IF flag.ok
    THEN IF from_value(T, flag.result.value) # None
         THEN [value |-> from_value(T, flag.result.value)[1], key |-> key,
               is_default_value |-> FALSE, error |-> None]
         ELSE from_err(default, key,
                       ClientError("SettingValueTypeMismatch",
                                   <<"The type of a setting must match the requested type.">>))
    ELSE from_err(default, key, flag.err)

\* Client::get_value_details::<T> on the settings that service.config() gave
get_value_details(T, settings, key, default, user) ==
    details_of(T, key, default, eval_flag(settings, key, user))

\* ---- the settings and users evaluations are run on
\* strings of the semantic-version conditions, character by character
V123 == <<"1", ".", "2", ".", "3">>
V124 == <<"1", ".", "2", ".", "4">>

\* a Config's settings: plain settings of each type; settings whose default,
\* rule-served or percentage-option value is not of the declared type;
\* prerequisite chains with and without a cycle; a semantic-version rule
\* and, from shortCut on: a cyclic prerequisite behind a condition that does
\* not match, after a rule that matches, after a rule that does not match; a
\* prerequisite reached on two paths and one asked for twice; rules that more
\* than one user matches; rules with percentage options before other rules;
\* rules whose condition cannot be evaluated; a rule without conditions and
\* one without a THEN part
CatalogSettings ==
    LET served(k, v) == Rule(<<PrerequisiteCond(k, "Eq", v)>>, Some(BoolValue("true")), None)
        text(conditions, v) == Rule(conditions, Some(StringValue(v)), None)
    IN  [plainBool |-> Setting("Bool", BoolValue("true"), <<>>, None),
         plainString |-> Setting("String", StringValue("x"), <<>>, None),
         plainInt |-> Setting("Int", IntValue("1"), <<>>, None),
         badDefault |-> Setting("Bool", StringValue("x"), <<>>, None),
         badRule |-> Setting("String", StringValue("x"),
                             <<Rule(<<PrerequisiteCond("plainBool", "Eq", BoolValue("true"))>>,
                                    Some(IntValue("1")), None)>>, None),
         flagA |-> Setting("String", StringValue("z"), <<>>,
                           Some(<<Option(StringValue("x"), 50), Option(StringValue("y"), 30)>>)),
         flagB |-> Setting("Bool", BoolValue("false"), <<>>,
                           Some(<<Option(StringValue("x"), 50), Option(BoolValue("true"), 50)>>)),
         key1 |-> Setting("Bool", BoolValue("false"),
                          <<served("key1", BoolValue("true"))>>, None),
         key2 |-> Setting("Bool", BoolValue("false"),
                          <<served("key3", BoolValue("true"))>>, None),
         key3 |-> Setting("Bool", BoolValue("false"),
                          <<served("key2", BoolValue("true"))>>, None),
         key4 |-> Setting("Bool", BoolValue("false"),
                          <<served("key3", BoolValue("true"))>>, None),
         key5 |-> Setting("Bool", BoolValue("false"),
                          <<served("key5", StringValue("x"))>>, None),
         key6 |-> Setting("Bool", BoolValue("false"),
                          <<served("key5", BoolValue("true"))>>, None),
         dep |-> Setting("Bool", BoolValue("false"),
                         <<served("plainBool", BoolValue("true"))>>, None),
         depBad |-> Setting("Bool", BoolValue("false"),
                            <<served("badDefault", BoolValue("true"))>>, None),
         depMissing |-> Setting("Bool", BoolValue("false"),
                                <<served("nokey", BoolValue("true"))>>, None),
         twoStep |-> Setting("Bool", BoolValue("false"),
                             <<Rule(<<PrerequisiteCond("dep", "Eq", BoolValue("true")),
                                      PrerequisiteCond("key1", "Eq", BoolValue("true"))>>,
                                    Some(BoolValue("true")), None)>>, None),
         semver |-> Setting("String", StringValue("x"),
                            <<Rule(<<UserCond("Version", "OneOfSemver",
                                              Some(<<<<"x">>, V123>>))>>,
                                   Some(StringValue("y")), None)>>, None),
         shortCut |-> Setting("Bool", BoolValue("false"),
                              <<Rule(<<PrerequisiteCond("plainBool", "Eq", BoolValue("false")),
                                       PrerequisiteCond("key2", "Eq", BoolValue("true"))>>,
                                     Some(BoolValue("true")), None)>>, None),
         afterMatch |-> Setting("Bool", BoolValue("false"),
                                <<served("plainBool", BoolValue("true")),
                                  served("key2", BoolValue("true"))>>, None),
         laterCycle |-> Setting("Bool", BoolValue("false"),
                                <<served("plainBool", BoolValue("false")),
                                  served("key2", BoolValue("true"))>>, None),
         diaL |-> Setting("Bool", BoolValue("false"),
                          <<served("plainBool", BoolValue("true"))>>, None),
         diaR |-> Setting("Bool", BoolValue("false"),
                          <<served("plainBool", BoolValue("true"))>>, None),
         diaTop |-> Setting("Bool", BoolValue("false"),
                            <<Rule(<<PrerequisiteCond("diaL", "Eq", BoolValue("true")),
                                     PrerequisiteCond("diaR", "Eq", BoolValue("true"))>>,
                                   Some(BoolValue("true")), None)>>, None),
         sib |-> Setting("Bool", BoolValue("false"),
                         <<Rule(<<PrerequisiteCond("dep", "Eq", BoolValue("true")),
                                  PrerequisiteCond("dep", "Eq", BoolValue("true"))>>,
                                Some(BoolValue("true")), None)>>, None),
         ordered |-> Setting("String", StringValue("d"),
                             <<text(<<UserCond("Version", "OneOfSemver", Some(<<V123>>))>>, "r1"),
                               text(<<UserCond("Version", "OneOfSemver", Some(<<V123, V124>>)),
                                      PrerequisiteCond("plainInt", "Eq", IntValue("1"))>>, "r2"),
                               text(<<UserCond("Version", "NotOneOfSemver", Some(<<V123>>))>>,
                                    "r3")>>, None),
         pctRule |-> Setting("String", StringValue("d"),
                             <<Rule(<<PrerequisiteCond("plainInt", "Eq", IntValue("1"))>>, None,
                                    Some(<<Option(StringValue("p1"), 50),
                                           Option(StringValue("p2"), 50)>>)),
                               text(<<PrerequisiteCond("plainInt", "Eq", IntValue("1"))>>, "r2")>>,
                             Some(<<Option(StringValue("g1"), 50),
                                    Option(StringValue("g2"), 50)>>)),
         pctOnly |-> Setting("String", StringValue("d"),
                             <<Rule(<<PrerequisiteCond("plainInt", "Eq", IntValue("1"))>>, None,
                                    Some(<<Option(StringValue("p1"), 50),
                                           Option(StringValue("p2"), 50)>>)),
                               text(<<PrerequisiteCond("plainInt", "Eq", IntValue("2"))>>, "r2")>>,
                             Some(<<Option(StringValue("g1"), 50),
                                    Option(StringValue("g2"), 50)>>)),
         skipper |-> Setting("String", StringValue("d"),
                             <<text(<<UserCond("Version", "OneOfSemver", Some(<<V123>>))>>, "r1"),
                               text(<<PrerequisiteCond("plainInt", "Eq", IntValue("1"))>>, "r2")>>,
                             None),
         compInvalid |-> Setting("String", StringValue("d"),
                                 <<text(<<UserCond("Version", "OneOfSemver", None)>>, "r1"),
                                   text(<<PrerequisiteCond("plainInt", "Eq", IntValue("1"))>>,
                                        "r2")>>, None),
         noConds |-> Setting("String", StringValue("d"),
                             <<[conditions |-> None, served_value |-> Some(StringValue("r1")),
                                percentage_options |-> None],
                               text(<<PrerequisiteCond("plainInt", "Eq", IntValue("1"))>>, "r2")>>,
                             None),
         noThen |-> Setting("String", StringValue("d"),
                            <<Rule(<<PrerequisiteCond("plainInt", "Eq", IntValue("1"))>>,
                                   None, None)>>, None)]

\* impl From<&Value> for Setting: the setting an override value stands for
Setting_from(value) ==
    Setting(value.tag,
            IF value.tag = "Bool" THEN BoolValue(value.val)
            ELSE IF value.tag = "String" THEN StringValue(value.val)
            ELSE IntValue(value.val),
            <<>>, None)

\* an override source that gives the bool setting plainBool a string value
OverrideCatalog == [k \in {"plainBool"} |-> Setting_from(Value("String", "x"))]

\* a Config of three settings, each with the next as its prerequisite and the
\* last with the first
RingSettings ==
    LET served(k) == Rule(<<PrerequisiteCond(k, "Eq", BoolValue("true"))>>,
                          Some(BoolValue("true")), None)
    IN  [ringA |-> Setting("Bool", BoolValue("false"), <<served("ringB")>>, None),
         ringB |-> Setting("Bool", BoolValue("false"), <<served("ringC")>>, None),
         ringC |-> Setting("Bool", BoolValue("false"), <<served("ringA")>>, None)]

\* what service.config() may hand to the evaluation: no config, the catalog,
\* the catalog under LocalOverRemote overrides, the ring
SettingsOf(name) ==
    IF name = "Catalog" THEN CatalogSettings
    ELSE IF name = "LocalOverRemote" THEN extend(CatalogSettings, OverrideCatalog)
    ELSE IF name = "Ring" THEN RingSettings
    ELSE NoSettings

\* the sequences over S of length at most n
RECURSIVE SeqsUpTo(_, _)
SeqsUpTo(S, n) ==
    IF n = 0 THEN {<<>>}
    ELSE SeqsUpTo(S, n - 1) \cup {Append(s, x) : s \in SeqsUpTo(S, n - 1), x \in S}

\* the keys a caller asks for: those of the catalog and one it does not have
AskedKeys == (DOMAIN CatalogSettings) \cup (DOMAIN RingSettings) \cup {"nokey"}

\* the prerequisite conditions of the catalog, each as the key of its
\* setting, the index of its rule and its index in the rule
PrerequisiteSites ==
    {site \in (DOMAIN CatalogSettings) \X (1..3) \X (1..2) :
        /\ site[2] <= Len(CatalogSettings[site[1]].targeting_rules)
        /\ CatalogSettings[site[1]].targeting_rules[site[2]].conditions # None
        /\ site[3] <= Len(CatalogSettings[site[1]].targeting_rules[site[2]].conditions[1])
        /\ CatalogSettings[site[1]].targeting_rules[site[2]].conditions[1][site[3]]
              .prerequisite_flag_condition # None}

\* the condition at a site
ConditionAt(site) ==
    CatalogSettings[site[1]].targeting_rules[site[2]].conditions[1][site[3]]
        .prerequisite_flag_condition[1]

\* the cycle trackers a prerequisite condition is evaluated on
Trackers == SeqsUpTo({"top", "dep", "key2", "diaTop"}, 2)

\* the User Objects: none, with an identifier, with a version, with both
Users ==
    {None} \cup {Some([Identifier |-> id]) : id \in {"u0", "u1", "u2", "u3"}}
           \cup {Some([Version |-> v]) : v \in {V123, V124, <<"x">>}}
           \cup {Some([Identifier |-> "u0", Version |-> V123])}

\* entries of a semantic-version comparison list: versions, a version with
\* blanks around it, one with build metadata, an unparseable one, blanks
SemverItems ==
    {V123, V124, <<" ">> \o V123 \o <<" ">>, V123 \o <<"+", "b">>, <<"x">>, <<" ">>}

MaxItems == 3
MaxOptions == 3
Percentages == {0, 20, 30, 50, 100}
OptionLabels == <<"o1", "o2", "o3", "o4", "o5">>

\* the percentage options with the given percentages, each serving its label
OptionsOf(percentages) ==
    [i \in 1..Len(percentages) |-> Option(StringValue(OptionLabels[i]), percentages[i])]

\* the evaluations to run: a get_value_details::<T> call, a call of
\* eval_prerequisite_cond on a tracker, a call of eval_semver_is_one_of, a
\* call of eval_array_contains, a call of eval_percentage
EvaluationCalls ==
    [fn : {"get_value_details"}, T : SettingTypes,
     settings : {"None", "Catalog", "LocalOverRemote", "Ring"},
     key : AskedKeys, user : Users, ret : {None}]
    \cup [fn : {"eval_prerequisite_cond"}, site : PrerequisiteSites, user : Users,
          cycle_tracker : Trackers, ret : {None}]
    \cup [fn : {"eval_array_contains"},
          comp_val : SeqsUpTo({HashOfRed, HashOfBlue, "red"}, 2),
          user_val : SeqsUpTo({"red", "blue", HashOfRed}, 2),
          comp : {"ArrayContainsAnyOf", "ArrayNotContainsAnyOf",
                  "ArrayContainsAnyOfHashed", "ArrayNotContainsAnyOfHashed"},
          salt : {None, Some("salt")}, ret : {None}]
    \cup [fn : {"eval_semver_is_one_of"}, comp_val : SeqsUpTo(SemverItems, MaxItems),
          user_val : {parse_semver(V123).version, parse_semver(V124).version},
          comp : {"OneOfSemver", "NotOneOfSemver"}, ret : {None}]
    \cup [fn : {"eval_percentage"},
          percentages : SeqsUpTo(Percentages, MaxOptions) \ {<<>>},
          key : {"flagA", "flagB"},
          user : {[Identifier |-> id] : id \in {"u0", "u1", "u2", "u3"}}
                 \cup {[Version |-> V123]},
          ret : {None}]

\* the config service before its first call, with no polling task
service == <<polling_mode, opt_offline, behavior, now, cached_entry, cache, offline,
             initialized, init, init_wait, cancelled, pc, call, next_tick, ext_writes,
             calls, last, first_fetch>>

service_at_rest ==
    /\ polling_mode = "Manual"
    /\ opt_offline = FALSE
    /\ behavior = "None"
    /\ now = 0
    /\ cached_entry = DefaultEntry
    /\ cache = <<>>
    /\ offline = FALSE
    /\ initialized = TRUE
    /\ init = TRUE
    /\ init_wait = 1
    /\ cancelled = FALSE
    /\ pc = [p \in Tasks |-> IF p = PollTask THEN "none" ELSE "idle"]
    /\ call = [p \in Tasks |-> NoCall]
    /\ next_tick = 0
    /\ ext_writes = 0
    /\ calls = 0
    /\ last = NoLast
    /\ first_fetch = NoFirst

InitEval ==
    /\ service_at_rest
    /\ evaluation \in EvaluationCalls
    /\ codec = "none"
    /\ fetcher = "none"

\* Client::get_value_details::<T>(key, T::default(), user) runs and returns
call_get_value_details ==
    /\ evaluation.fn = "get_value_details"
    /\ evaluation.ret = None
    /\ evaluation' =
          [evaluation EXCEPT !.ret =
              Some([details |-> get_value_details(evaluation.T,
                                                  SettingsOf(evaluation.settings),
                                                  evaluation.key, default_of(evaluation.T),
                                                  evaluation.user),
                    flag |-> eval_flag(SettingsOf(evaluation.settings), evaluation.key,
                                       evaluation.user)])]
    /\ UNCHANGED <<service, codec, fetcher>>

\* eval_prerequisite_cond runs on a condition of the catalog and returns
call_eval_prerequisite_cond ==
    /\ evaluation.fn = "eval_prerequisite_cond"
    /\ evaluation.ret = None
    /\ evaluation' =
          [evaluation EXCEPT !.ret =
              Some(eval_prerequisite_cond(ConditionAt(evaluation.site), evaluation.site[1],
                                          evaluation.user, CatalogSettings,
                                          evaluation.cycle_tracker))]
    /\ UNCHANGED <<service, codec, fetcher>>

\* eval_array_contains runs for a condition of the setting "flag"
call_eval_array_contains ==
    /\ evaluation.fn = "eval_array_contains"
    /\ evaluation.ret = None
    /\ evaluation' =
          [evaluation EXCEPT !.ret =
              Some(eval_array_contains(evaluation.comp_val, evaluation.user_val,
                                       evaluation.comp, evaluation.salt, "flag"))]
    /\ UNCHANGED <<service, codec, fetcher>>

call_eval_semver_is_one_of ==
    /\ evaluation.fn = "eval_semver_is_one_of"
    /\ evaluation.ret = None
    /\ evaluation' =
          [evaluation EXCEPT !.ret =
              Some(eval_semver_is_one_of(evaluation.comp_val, evaluation.user_val,
                                         evaluation.comp))]
    /\ UNCHANGED <<service, codec, fetcher>>

call_eval_percentage ==
    /\ evaluation.fn = "eval_percentage"
    /\ evaluation.ret = None
    /\ evaluation' =
          [evaluation EXCEPT !.ret =
              Some(eval_percentage(OptionsOf(evaluation.percentages), evaluation.user,
                                   evaluation.key, None))]
    /\ UNCHANGED <<service, codec, fetcher>>

NextEval ==
    \/ call_get_value_details
    \/ call_eval_prerequisite_cond
    \/ call_eval_array_contains
    \/ call_eval_semver_is_one_of
    \/ call_eval_percentage

SpecEval == InitEval /\ [][NextEval]_vars

\* ---- the cache codec on its own
\* the first field of a cache string: decimal fetch times as to_string writes
\* them, the same values written otherwise, values outside the time range,
\* and fields that are no number
TimeStrings ==
    {<<"0">>, <<"5">>, <<"1", "2">>, <<"-", "5">>, <<"9", "9", "9">>,
     <<"0", "5">>, <<"+", "5">>, <<"-", "0">>, <<"+", "0">>, <<"0", "0">>,
     <<"1", "0", "0", "0">>, <<"-", "1", "0", "0", "0">>,
     <<>>, <<"x">>, <<"5", "x">>, <<"-">>, <<" ", "5">>}

Etags == {<<>>, <<"a">>, <<"W", "/", "b">>}

\* the config JSON field: documents the decoder accepts, one it rejects,
\* nothing
Jsons == ValidDocs \cup {<<"X">>, <<>>}

\* strings read from the cache: three fields, or fewer newlines than two
CacheStrings ==
    {t \o <<NL>> \o e \o <<NL>> \o j : t \in TimeStrings, e \in Etags, j \in Jsons}
    \cup {t \o <<NL>> \o e : t \in TimeStrings, e \in Etags}
    \cup TimeStrings

\* in-memory entries a cache string is read against: the default one and
\* entries that came from cache strings
MemoryEntries ==
    {DefaultEntry}
    \cup {entry_from_cached_json(m).entry :
            m \in {<<"5", NL, "a", NL, "P">>, <<"0", NL, "W", "/", "b", NL, "Q">>}}

InitCodec ==
    /\ service_at_rest
    /\ evaluation = "none"
    /\ fetcher = "none"
    /\ codec \in [s : CacheStrings, entry : MemoryEntries, ret : {None},
                  synced : {None}, log : {<<>>}]

\* entry_from_cached_json(s) runs and returns
call_entry_from_cached_json ==
    /\ codec.ret = None /\ codec.synced = None
    /\ codec' = [codec EXCEPT !.ret = Some(entry_from_cached_json(codec.s))]
    /\ UNCHANGED <<service, evaluation, fetcher>>

\* the cache sync of a service without overrides whose cache holds s and
\* whose in-memory entry is codec.entry: the entry after it and what
\* read_cache logged
call_cache_sync ==
    /\ codec.ret = None /\ codec.synced = None
    /\ codec' = [codec EXCEPT !.synced = Some(cache_sync(codec.entry, codec.s, "None")),
                              !.log = read_cache_log(codec.s, codec.entry.cache_str)]
    /\ UNCHANGED <<service, evaluation, fetcher>>

NextCodec ==
    \/ call_entry_from_cached_json
    \/ call_cache_sync

SpecCodec == InitCodec /\ [][NextCodec]_vars

\* ---- the fetcher and the log records of fetch and client errors
\* ErrorKind::as_u8: the discriminant cast to u8, which keeps its low 8 bits
as_u8(kind) == ErrorKind[kind] % 256

\* a log record: its level, its event_id key and the error it was made for
\* ("none" for a record that reports no error)
LogRecord(level, event_id, kind) == [level |-> level, event_id |-> event_id, kind |-> kind]

\* error!(event_id = kind.as_u8(); ...) / warn!(event_id = err.kind.as_u8(); ...)
log_error(kind) == LogRecord("error", as_u8(kind), kind)
log_warn(kind) == LogRecord("warn", as_u8(kind), kind)

\* Preferences of a fetched config: url and redirect, each optional
Urls == {"global", "eu"}
RedirectModes == {"No", "Should", "Force"}
Preferences ==
    [url : {None} \cup {Some(u) : u \in Urls},
     redirect : {None} \cup {Some(r) : r \in RedirectModes}]

\* the etag a caller hands to Fetcher::fetch (the etag of its entry, empty
\* when it has none) and the ETag header of a 200 response (absent or present)
SuppliedEtags == {"", "etag-1"}
EtagHeaders == {None, Some("etag-2")}

\* what the HTTP client gives back: a response with a status code (the body
\* of a 200 being a document with or without preferences, a document that
\* does not parse, or unreadable), a timeout, another failure
HttpResults ==
    [result : {"Ok"}, status : {200}, body : {"valid"}, etag : EtagHeaders,
     preferences : {None} \cup {Some(pref) : pref \in Preferences}]
    \cup [result : {"Ok"}, status : {200}, body : {"invalid", "unreadable"},
          etag : EtagHeaders, preferences : {None}]
    \cup [result : {"Ok"}, status : {304, 403, 404, 500}, body : {"none"},
          etag : {None}, preferences : {None}]
    \cup [result : {"Timeout", "Error"}, status : {0}, body : {"none"},
          etag : {None}, preferences : {None}]

\* FetchResponse; a Fetched carries an entry, of which the preferences of its
\* config and its etag are kept
Fetched(preferences, etag) ==
    [kind |-> "Fetched", preferences |-> preferences, etag |-> etag,
     err |-> "NoError", transient |-> FALSE]
NotModified ==
    [kind |-> "NotModified", preferences |-> None, etag |-> "",
     err |-> "NoError", transient |-> FALSE]
Failed(err, transient) ==
    [kind |-> "Failed", preferences |-> None, etag |-> "",
     err |-> err, transient |-> transient]

\* a failure is logged with its kind, then returned
failed_logged(err, transient) ==
    [response |-> Failed(err, transient), log |-> <<log_error(err)>>]

\* the request Fetcher::fetch_http builds: the url it goes to and the
\* If-None-Match header, added when the etag is not empty
http_request(url, etag) ==
    [url |-> url, if_none_match |-> IF etag # "" THEN Some(etag) ELSE None]

\* the etag of a 200 response: its ETag header, empty without one
etag_of(http) == IF http.etag = None THEN "" ELSE http.etag[1]

\* Fetcher::fetch_http on what the HTTP client gave back: the response and
\* the records it logs
fetch_http_forbidden_transient(http) ==
    IF http.result = "Ok"
    THEN IF http.status = 200
         THEN IF http.body = "valid"
              THEN [response |-> Fetched(http.preferences, etag_of(http)), log |-> <<>>]
              ELSE failed_logged("InvalidHttpResponseContent", TRUE)
         ELSE IF http.status = 304 THEN [response |-> NotModified, log |-> <<>>]
         ELSE IF http.status = 404 THEN failed_logged("InvalidSdkKey", FALSE)
         ELSE failed_logged("UnexpectedHttpResponse", TRUE)
    ELSE IF http.result = "Timeout" THEN failed_logged("HttpRequestTimeout", TRUE)
    ELSE failed_logged("HttpRequestFailure", TRUE)

fetch_http(http) ==
    IF http.result = "Ok"
    THEN IF http.status = 200
         THEN IF http.body = "valid"
              THEN [response |-> Fetched(http.preferences, etag_of(http)), log |-> <<>>]
              ELSE failed_logged("InvalidHttpResponseContent", TRUE)
         ELSE IF http.status = 304 THEN [response |-> NotModified, log |-> <<>>]
         ELSE IF http.status \in {403, 404} THEN failed_logged("InvalidSdkKey", FALSE)
         ELSE failed_logged("UnexpectedHttpResponse", TRUE)
    ELSE IF http.result = "Timeout" THEN failed_logged("HttpRequestTimeout", TRUE)
    ELSE failed_logged("HttpRequestFailure", TRUE)

\* pref.redirect.clone().unwrap_or(RedirectMode::No)
redirect_of(pref) == IF pref.redirect = None THEN "No" ELSE pref.redirect[1]

\* the result is kept for a custom url unless the redirect is forced and the
\* SDK key is not a proxy key
keeps_custom_url_ignoring_proxy(f, redirect) == f.is_custom_url /\ redirect # "Force"

keeps_custom_url(f, redirect) == f.is_custom_url /\ (f.proxy_key \/ redirect # "Force")

\* Fetcher::set_fetch_url
set_fetch_url_dropped(f, new_url) == f

set_fetch_url(f, new_url) == [f EXCEPT !.fetch_url = new_url]

\* the end of the match once the url is set: No returns the response, Should
\* warns, and Should and Force go round the loop again
after_redirect_should_returns(moved, response, redirect) ==
    IF redirect = "No"
    THEN [moved EXCEPT !.pc = "done", !.ret = Some(response)]
    ELSE IF redirect = "Should"
    THEN [moved EXCEPT !.pc = "done", !.ret = Some(response),
                       !.log = Append(moved.log, LogRecord("warn", 3002, "none"))]
    ELSE [moved EXCEPT !.iteration = moved.iteration + 1]

after_redirect(moved, response, redirect) ==
    IF redirect = "No"
    THEN [moved EXCEPT !.pc = "done", !.ret = Some(response)]
    ELSE IF redirect = "Should"
    THEN [moved EXCEPT !.iteration = moved.iteration + 1,
                       !.log = Append(moved.log, LogRecord("warn", 3002, "none"))]
    ELSE [moved EXCEPT !.iteration = moved.iteration + 1]

\* the match of Fetcher::fetch on a response to a request sent to
\* f.fetch_url: the fetcher after it, returning or going round again
fetch_match(f, response) ==
    LET returned == [f EXCEPT !.pc = "done", !.ret = Some(response)]
        pref == response.preferences[1]
        moved == IF pref.url # None THEN set_fetch_url(f, pref.url[1]) ELSE f
    IN  IF response.kind # "Fetched" \/ response.preferences = None THEN returned
        ELSE IF pref.url = Some(f.fetch_url) THEN returned
        ELSE IF keeps_custom_url(f, redirect_of(pref)) THEN returned
        ELSE after_redirect(moved, response, redirect_of(pref))

\* the client's options and its fetcher before a call; exchanges is the
\* record of the call's HTTP exchanges: each request, what the HTTP client
\* gave back for it and the response fetch_http made of that
Fetchers ==
    [is_custom_url : BOOLEAN, proxy_key : BOOLEAN, offline : BOOLEAN, local_only : BOOLEAN,
     fetch_url : Urls, etag : {""}, iteration : {0}, pc : {"idle"}, log : {<<>>},
     exchanges : {<<>>}, ret : {None}]

InitFetch ==
    /\ service_at_rest
    /\ evaluation = "none"
    /\ codec = "none"
    /\ fetcher \in Fetchers

\* Fetcher::fetch is called with an etag
fetch_begin ==
    /\ fetcher.pc = "idle"
    /\ \E etag \in SuppliedEtags :
          fetcher' = [fetcher EXCEPT !.pc = "fetch", !.etag = etag]
    /\ UNCHANGED <<service, evaluation, codec>>

\* one exchange made by fetch_http: the request, the HTTP client's result
\* and the response
exchange(f, http) ==
    [request |-> http_request(f.fetch_url, f.etag), http |-> http,
     response |-> fetch_http(http).response]

\* one iteration of the loop of Fetcher::fetch
fetch_iteration ==
    /\ fetcher.pc = "fetch"
    /\ fetcher.iteration < 3
    /\ \E http \in HttpResults :
          fetcher' = fetch_match([fetcher EXCEPT !.log = fetcher.log \o fetch_http(http).log,
                                                 !.exchanges = Append(fetcher.exchanges,
                                                                      exchange(fetcher, http))],
                                 fetch_http(http).response)
    /\ UNCHANGED <<service, evaluation, codec>>

\* the loop of Fetcher::fetch ended without a return
redirect_loop_permanent == Failed("RedirectLoop", FALSE)

redirect_loop == Failed("RedirectLoop", TRUE)

fetch_redirect_loop ==
    /\ fetcher.pc = "fetch"
    /\ fetcher.iteration = 3
    /\ fetcher' = [fetcher EXCEPT !.pc = "done",
                                  !.log = Append(fetcher.log, log_error("RedirectLoop")),
                                  !.ret = Some(redirect_loop)]
    /\ UNCHANGED <<service, evaluation, codec>>

\* Client::refresh up to its call of the service, which hands the etag of
\* its entry to the fetcher
client_refresh ==
    /\ fetcher.pc = "idle"
    /\ \E etag \in SuppliedEtags :
          fetcher' =
              IF fetcher.offline
              THEN [fetcher EXCEPT !.pc = "done",
                                   !.log = Append(fetcher.log, log_warn("OfflineClient")),
                                   !.ret = Some(Failed("OfflineClient", FALSE))]
              ELSE IF fetcher.local_only
              THEN [fetcher EXCEPT !.pc = "done",
                                   !.log = Append(fetcher.log, log_warn("LocalOnlyClient")),
                                   !.ret = Some(Failed("LocalOnlyClient", FALSE))]
              ELSE [fetcher EXCEPT !.pc = "fetch", !.etag = etag]
    /\ UNCHANGED <<service, evaluation, codec>>

NextFetch ==
    \/ fetch_begin
    \/ fetch_iteration
    \/ fetch_redirect_loop
    \/ client_refresh

SpecFetch == InitFetch /\ [][NextFetch]_vars

\* -------------------------------------------------------------- properties
\* the step in which task p's HTTP request leaves
HttpStart(p) == pc[p] = "send" /\ pc'[p] = "http"

\* a fetch_if_older call has just returned
FetchIfOlderReturned ==
    last.outcome \in {"cached", "Fetched", "NotModified", "FailedTransient", "FailedPermanent"}

\* the JSON part of a cache string
JsonOf(cache_str) ==
    LET time_index == find(cache_str, NL)
        without_time == SubSeq(cache_str, time_index + 1, Len(cache_str))
        etag_index == find(without_time, NL)
    IN  SubSeq(without_time, etag_index + 1, Len(without_time))

\* s is empty or a cache string as the SDK itself generates them
SdkWritten(s) ==
    s = <<>> \/ (entry_from_cached_json(s).ok /\ entry_from_cached_json(s).entry.cache_str = s)

\* C1: after every completed fetch_if_older call of a service without
\* LocalOnly overrides, except a transient failure with an empty entry, the
\* external cache holds the in-memory entry's cache_str, also when another
\* process wrote the cache before the call.  Stated for the calls during
\* which nobody else wrote the cache and for a cache that holds a string of
\* the SDK's own format.
C1_CacheEqualsEntry ==
    ( /\ FetchIfOlderReturned
      /\ ~is_local(behavior)
      /\ ~(last.outcome = "FailedTransient" /\ is_empty(cached_entry))
      /\ ~last.ext_during
      /\ SdkWritten(cache) )
    => cache = cached_entry.cache_str

\* C2: while the service is offline (set_mode(true) has returned and
\* set_mode(false) has not been called) no task starts an HTTP request.
C2_NoRequestWhileOffline == [][\A p \in Tasks : HttpStart(p) => ~offline]_vars

\* C3: a Client::refresh called while the client is offline returns the
\* OfflineClient error (LocalOnlyClient is accepted with LocalOnly overrides)
\* and has sent no HTTP request.
C3_RefreshOfflineError ==
    (last.op = "refresh" /\ last.offline_at_call)
    => /\ last.status \in ({"OfflineClient"} \cup
                           (IF is_local(behavior) THEN {"LocalOnlyClient"} ELSE {}))
       /\ last.outcome = "none"

\* C4: in AutoPoll mode without LocalOnly overrides, whenever the service is
\* online and not closed there is a polling task to take the later tick that
\* fetches, whether the service was constructed offline or put offline later.
C4_PollingResumes ==
    (polling_mode = "AutoPoll" /\ ~is_local(behavior) /\ ~offline /\ ~cancelled)
    => pc[PollTask] \notin {"none", "stopped"}

\* C5: no HTTP request is started after close() has returned.
C5_NoRequestAfterClose == [][\A p \in Tasks : HttpStart(p) => ~cancelled]_vars

\* C6: the initialization signal fires at most once and is never reset; the
\* single permit it adds is never lost, so every waiter blocked on the latch
\* can pass it, and a wait_for_init that starts after the firing does not
\* wait on the latch at all.
Holders == {p \in Callers : pc[p] = "permit"}

C6_LatchOneShot ==
    /\ [](init_wait + Cardinality(Holders) = IF initialized THEN 1 ELSE 0)
    /\ [](initialized = init)
    /\ [][initialized => initialized']_vars
    /\ [][\A p \in Callers :
            (initialized /\ pc[p] = "idle" /\ call'[p].op = "wait") => pc'[p] = "dcs"]_vars

\* two waiters blocked before the firing: one has passed the latch and given
\* the permit back, the other holds it now
C6_Witness ==
    /\ initialized
    /\ \E p \in Callers : \E q \in Callers \ {p} :
          /\ call[p].op = "wait" /\ pc[p] = "dcs"
          /\ call[q].op = "wait" /\ pc[q] = "permit"

\* C7: with LocalOnly overrides no HTTP request is ever sent, no polling task
\* runs, refresh fails without reaching the service, and every config()
\* returns exactly the override settings with fetch time MIN.
C7_LocalOnly ==
    is_local(behavior) =>
        /\ \A p \in Tasks : pc[p] \notin {"send", "http"}
        /\ pc[PollTask] = "none"
        /\ last.op = "refresh" => last.status \in {"OfflineClient", "LocalOnlyClient"}
        /\ last.op = "config" =>
              /\ last.outcome = "local"
              /\ last.config = OverrideSettings
              /\ last.fetch_time = MIN_UTC

C7_Witness ==
    /\ is_local(behavior)
    /\ polling_mode = "AutoPoll"
    /\ ~offline
    /\ last.op = "config"
    /\ cache # <<>>

\* C8: a non-empty entry of a service with merging overrides serves the union
\* of the remote keys (those of its cache string's JSON) and the override
\* keys; a key on both sides has the override's setting under LocalOverRemote
\* and the remote one under RemoteOverLocal.
C8_OverrideMerge ==
    (~is_empty(cached_entry) /\ behavior \in {"LocalOverRemote", "RemoteOverLocal"}) =>
        LET remote == DocSettings(JsonOf(cached_entry.cache_str))
            local == OverrideSettings
            served == cached_entry.config
        IN  /\ DOMAIN served = (DOMAIN remote) \cup (DOMAIN local)
            /\ \A k \in (DOMAIN remote) \ (DOMAIN local) : served[k] = remote[k]
            /\ \A k \in (DOMAIN local) \ (DOMAIN remote) : served[k] = local[k]
            /\ \A k \in (DOMAIN remote) \cap (DOMAIN local) :
                  served[k] = IF behavior = "LocalOverRemote" THEN local[k] ELSE remote[k]

\* an entry just fetched under RemoteOverLocal: "kb" is on both sides
C8_Witness ==
    /\ behavior = "RemoteOverLocal"
    /\ last.outcome = "Fetched"
    /\ last.config = cached_entry.config
    /\ cached_entry.config["kb"] = "remoteP"
    /\ cached_entry.config["kc"] = "local"

\* C9: in Manual mode the init signal is fired from construction on, config()
\* never reaches the fetcher, and a task at the fetcher runs refresh().
C9_ManualNeverFetches ==
    polling_mode = "Manual" =>
        /\ initialized
        /\ \A p \in Tasks : pc[p] \in {"send", "http"} => call[p].op = "refresh"
        /\ last.op = "config" => last.outcome \in {"cached", "local"}

\* config() has returned the empty entry of an online Manual service
C9_Witness ==
    /\ polling_mode = "Manual"
    /\ ~offline
    /\ ~is_local(behavior)
    /\ last.op = "config"
    /\ is_empty(cached_entry)

\* what C10 says of a 304: fetch_time is the handling time, config and etag
\* are kept, the regenerated string is the entry's and is in the cache
Bumped304 ==
    /\ cached_entry.fetch_time = now
    /\ cached_entry.config = last.before.config
    /\ cached_entry.etag = last.before.etag
    /\ cached_entry.cache_str =
          generate_cache_str(now, last.before.etag, JsonOf(last.before.cache_str))
    /\ cache = cached_entry.cache_str

Fresh(e, d, t) == t - e.fetch_time <= d

\* a wait_for_init call has just returned a cache state
WaitReturned == last.op = "wait" /\ last.status # "ClientInitTimedOut"

\* C11: a wait_for_init that returns reports HasLocalOverrideFlagDataOnly with
\* LocalOnly overrides; otherwise HasUpToDateFlagData in AutoPoll and LazyLoad
\* when the entry's age is within the interval / TTL; otherwise
\* HasCachedFlagDataOnly for a non-empty entry; otherwise NoFlagData.  Manual
\* mode never reports HasUpToDateFlagData.
C11_WaitForInitState ==
    WaitReturned =>
        /\ initialized
        /\ last.status =
              IF is_local(behavior) THEN "HasLocalOverrideFlagDataOnly"
              ELSE IF /\ polling_mode \in {"AutoPoll", "LazyLoad"}
                      /\ Fresh(cached_entry, Interval, now)
              THEN "HasUpToDateFlagData"
              ELSE IF cached_entry.etag # <<>> \/ cached_entry.cache_str # <<>>
              THEN "HasCachedFlagDataOnly"
              ELSE "NoFlagData"
        /\ polling_mode = "Manual" => last.status # "HasUpToDateFlagData"

\* a Manual service reports cached data although its entry is fresh
C11_Witness ==
    /\ WaitReturned
    /\ polling_mode = "Manual"
    /\ last.status = "HasCachedFlagDataOnly"
    /\ Fresh(cached_entry, Interval, now)

\* the init signal of an AutoPoll service was fired by a failed fetch that
\* started from a cached entry older than the interval, the entry is as that
\* fetch left it, and a wait_for_init has just returned
WaitAfterStaleFailure ==
    /\ WaitReturned
    /\ polling_mode = "AutoPoll"
    /\ first_fetch \in {"FailedTransient", "FailedPermanent"}

\* C12 as claimed: whatever the kind of the failure, wait_for_init returns
\* HasCachedFlagDataOnly.
C12_StaleFetchFailAnyKind ==
    WaitAfterStaleFailure => last.status = "HasCachedFlagDataOnly"

\* C12 amended: after a transient failure wait_for_init returns
\* HasCachedFlagDataOnly; a non-transient failure has bumped the entry's fetch
\* time to the time of the failure, and wait_for_init returns
\* HasUpToDateFlagData until the interval has passed since.
C12_StaleFetchFail ==
    WaitAfterStaleFailure =>
        IF first_fetch = "FailedTransient"
        THEN last.status = "HasCachedFlagDataOnly"
        ELSE last.status = IF Fresh(cached_entry, Interval, now)
                           THEN "HasUpToDateFlagData"
                           ELSE "HasCachedFlagDataOnly"

C12_Witness ==
    /\ WaitAfterStaleFailure
    /\ first_fetch = "FailedTransient"
    /\ last.status = "HasCachedFlagDataOnly"

\* the step in which p's wait_for_ready returns ClientInitTimedOut
TimedOut(p) ==
    call[p].op = "wait" /\ last'.task = p /\ last'.status = "ClientInitTimedOut"

\* C13: a wait_for_ready whose deadline expires before the init signal has
\* fired can only return ClientInitTimedOut (it is suspended on the latch,
\* which has no permit); the step that returns the error leaves the entry,
\* the cache, the signal and every other task, the fetching one included,
\* as they were; and a fetch in progress ends by firing the signal.
C13_TimeoutLeavesFetch ==
    /\ [](\A p \in Callers :
            (call[p].op = "wait" /\ ~initialized) => (pc[p] = "acquire" /\ init_wait = 0))
    /\ [][\A p \in Callers :
            TimedOut(p) =>
                /\ UNCHANGED <<cached_entry, cache, offline, initialized, init, init_wait,
                               cancelled, next_tick>>
                /\ \A q \in Tasks \ {p} : pc'[q] = pc[q] /\ call'[q] = call[q]]_vars
    /\ [][\A q \in Tasks : (pc[q] = "http" /\ pc'[q] # "http") => initialized']_vars

\* the deadline has expired before the signal fired while the polling task's
\* first request is under way
C13_Witness ==
    /\ last.status = "ClientInitTimedOut"
    /\ ~initialized
    /\ pc[PollTask] = "http"

\* ---------------------------------------------- properties of the evaluator
\* the call of fn has returned
Returned(fn) == evaluation.fn = fn /\ evaluation.ret # None

\* the message eval_flag wraps an evaluator error in
FailedToEvaluate(key, err) == <<"Failed to evaluate setting '", key, "' (">> \o err \o <<")">>

\* the types a SettingValue stores a value of
StoredTypes(sv) ==
    {t \in SettingTypes :
        \/ t = "Bool" /\ sv.bool_val # <<>>
        \/ t = "String" /\ sv.string_val # <<>>
        \/ t = "Int" /\ sv.int_val # <<>>}

\* C14: a get_value_details call whose evaluation fails (no config, key
\* missing, evaluator error, requested type other than the setting's) returns
\* the caller's default with is_default_value true and an error; every other
\* call returns the evaluated value with is_default_value false and no error.
C14_ErrorsYieldDefault ==
    Returned("get_value_details") =>
        LET details == evaluation.ret[1].details
            flag == evaluation.ret[1].flag
            settings == SettingsOf(evaluation.settings)
            fails == \/ DOMAIN settings = {}
                     \/ evaluation.key \notin DOMAIN settings
                     \/ ~flag.result.ok
                     \/ settings[evaluation.key].setting_type # evaluation.T
        IN  IF fails
            THEN /\ details.value = default_of(evaluation.T)
                 /\ details.is_default_value
                 /\ details.error # <<>>
            ELSE /\ details.value = flag.result.value
                 /\ ~details.is_default_value
                 /\ details.error = <<>>

\* the evaluation succeeded but an i64 was requested of a bool setting
C14_Witness ==
    /\ Returned("get_value_details")
    /\ evaluation.settings = "Catalog"
    /\ evaluation.key = "plainBool"
    /\ evaluation.T = "Int"
    /\ evaluation.ret[1].flag.ok
    /\ evaluation.ret[1].details.is_default_value

\* the evaluation came to return a value that is not of the declared type of
\* its setting
ReachedMismatch ==
    /\ Returned("get_value_details")
    /\ evaluation.ret[1].flag.result.reached # <<>>
    /\ LET reached == evaluation.ret[1].flag.result.reached[1]
       IN  reached.declared \notin StoredTypes(reached.value)

\* C15 as claimed: the error reported for such an evaluation has kind
\* SettingValueTypeMismatch (2002).
C15_MismatchReports2002 ==
    ReachedMismatch =>
        /\ evaluation.ret[1].details.error # <<>>
        /\ evaluation.ret[1].details.error[1].kind = "SettingValueTypeMismatch"

\* C15 amended: such an evaluation fails with kind EvaluationFailure (1002)
\* and the message "Setting value is missing or invalid", and the caller gets
\* the default; SettingValueTypeMismatch (2002) is the kind reported when the
\* evaluation succeeded and the requested type is not the setting's.
C15_MismatchReports1002 ==
    Returned("get_value_details") =>
        LET details == evaluation.ret[1].details
            flag == evaluation.ret[1].flag
        IN  /\ ReachedMismatch =>
                  /\ details.is_default_value
                  /\ details.error # <<>>
                  /\ details.error[1].kind = "EvaluationFailure"
                  /\ ErrorKind[details.error[1].kind] = 1002
                  /\ details.error[1].message =
                        FailedToEvaluate(evaluation.key, SETTING_VAL_INVALID_MSG)
            /\ (details.error # <<>> /\ details.error[1].kind = "SettingValueTypeMismatch")
                  <=> (flag.ok /\ flag.result.setting_type # evaluation.T)

\* a percentage option of a bool setting serves a string
C15_Witness ==
    /\ ReachedMismatch
    /\ evaluation.key = "flagB"
    /\ evaluation.ret[1].flag.result.reached[1].value.string_val # <<>>

\* the prerequisite condition of a setting whose only rule has it as its
\* only condition
PrereqOf(settings, k) ==
    settings[k].targeting_rules[1].conditions[1][1].prerequisite_flag_condition[1]

HasPrereq(settings, k) ==
    /\ k \in DOMAIN settings
    /\ Len(settings[k].targeting_rules) = 1
    /\ Len(settings[k].targeting_rules[1].conditions[1]) = 1
    /\ settings[k].targeting_rules[1].conditions[1][1].prerequisite_flag_condition # <<>>

\* the prerequisite exists and the comparison value is of its type
Typed(settings, cond) ==
    /\ cond.flag_key \in DOMAIN settings
    /\ settings[cond.flag_key].setting_type \in StoredTypes(cond.flag_value)

\* the chain of prerequisite evaluations started from k after the keys of
\* path, up to and with the first key it revisits; <<>> when it ends or
\* breaks off without a revisit
RECURSIVE Chain(_, _, _)
Chain(settings, path, k) ==
    IF ~HasPrereq(settings, k) THEN <<>>
    ELSE LET cond == PrereqOf(settings, k)
             on == Append(path, k)
         IN  IF \E i \in 1..Len(on) : on[i] = cond.flag_key
             THEN Append(on, cond.flag_key)
             ELSE IF ~Typed(settings, cond) THEN <<>>
             ELSE Chain(settings, on, cond.flag_key)

\* a get_value_details call on the catalog whose chain revisits a key
Revisits ==
    /\ Returned("get_value_details")
    /\ evaluation.settings = "Catalog"
    /\ Chain(CatalogSettings, <<>>, evaluation.key) # <<>>

\* the chain's keys in single quotes joined by " -> "
ChainMessage(chain) ==
    FailedToEvaluate(chain[1],
        [i \in 1..(4 * Len(chain) - 1) |->
            IF i % 4 = 1 THEN "'"
            ELSE IF i % 4 = 2 THEN chain[(i + 2) \div 4]
            ELSE IF i % 4 = 3 THEN "'"
            ELSE " -> "])

\* C16 as claimed: whenever the chain reaches a prerequisite whose key is on
\* the chain already, the evaluation fails with the chain as its message.
C16_CycleMessageAlways ==
    Revisits =>
        /\ evaluation.ret[1].details.error # <<>>
        /\ evaluation.ret[1].details.error[1].message =
              ChainMessage(Chain(CatalogSettings, <<>>, evaluation.key))

\* C16 amended: it does when the comparison value of the revisiting condition
\* is of the prerequisite's type; when it is not, the evaluation fails with
\* the type mismatch message, the type being looked at before the cycle.
C16_CycleMessage ==
    Revisits =>
        LET chain == Chain(CatalogSettings, <<>>, evaluation.key)
            cond == PrereqOf(CatalogSettings, chain[Len(chain) - 1])
            error == evaluation.ret[1].details.error
        IN  /\ error # <<>>
            /\ error[1].kind = "EvaluationFailure"
            /\ error[1].message =
                  IF Typed(CatalogSettings, cond)
                  THEN ChainMessage(chain)
                  ELSE FailedToEvaluate(evaluation.key,
                          <<"Type mismatch between comparison value '",
                            display(cond.flag_value), "' and prerequisite flag '",
                            cond.flag_key, "'">>)
            /\ evaluation.key = "key1" =>
                  error[1].message =
                     <<"Failed to evaluate setting '", "key1", "' (",
                       "'", "key1", "'", " -> ", "'", "key1", "'", ")">>
            /\ evaluation.key = "key2" =>
                  error[1].message =
                     <<"Failed to evaluate setting '", "key2", "' (",
                       "'", "key2", "'", " -> ", "'", "key3", "'", " -> ",
                       "'", "key2", "'", ")">>
            /\ evaluation.key = "key4" =>
                  error[1].message =
                     <<"Failed to evaluate setting '", "key4", "' (",
                       "'", "key4", "'", " -> ", "'", "key3", "'", " -> ",
                       "'", "key2", "'", " -> ", "'", "key3", "'", ")">>

C16_Witness ==
    /\ Revisits
    /\ evaluation.key = "key4"
    /\ evaluation.ret[1].details.is_default_value

\* C17: a OneOfSemver condition matches when the user's version equals a
\* parseable entry of the list, wherever unparseable entries stand in it.
C17_InvalidEntriesSkipped ==
    ( /\ Returned("eval_semver_is_one_of")
      /\ evaluation.comp = "OneOfSemver"
      /\ \E i \in 1..Len(evaluation.comp_val) :
            /\ parse_semver(trim(evaluation.comp_val[i])).ok
            /\ parse_semver(trim(evaluation.comp_val[i])).version = evaluation.user_val )
    => (evaluation.ret[1].kind = "Success" /\ evaluation.ret[1].matched)

\* the entries of the list that are not blank, and those of them that parse
NonBlank(comp_val) == {i \in 1..Len(comp_val) : trim(comp_val[i]) # <<>>}
Unparseable(comp_val) == {i \in NonBlank(comp_val) : ~parse_semver(trim(comp_val[i])).ok}

\* C17 as the code has it: blank entries of the list are skipped; one
\* unparseable entry anywhere in the list makes the condition a non-match,
\* for OneOfSemver and NotOneOfSemver alike and even when the user's version
\* equals another entry; when every non-blank entry parses, OneOfSemver
\* matches exactly when the user's version equals one of them.
C17_InvalidEntryIsNonMatch ==
    Returned("eval_semver_is_one_of") =>
        LET comp_val == evaluation.comp_val
            equal == \E i \in NonBlank(comp_val) :
                        parse_semver(trim(comp_val[i])).version = evaluation.user_val
        IN  /\ evaluation.ret[1].kind = "Success"
            /\ evaluation.ret[1].matched =
                  IF Unparseable(comp_val) # {} THEN FALSE
                  ELSE equal = (evaluation.comp = "OneOfSemver")

\* the user's version stands in the list after an unparseable entry
C17_Witness ==
    /\ Returned("eval_semver_is_one_of")
    /\ evaluation.comp = "OneOfSemver"
    /\ evaluation.comp_val = <<<<"x">>, V123>>
    /\ evaluation.user_val = parse_semver(V123).version
    /\ ~evaluation.ret[1].matched

\* the running sum of the first i percentages
RECURSIVE RunningSum(_, _)
RunningSum(percentages, i) ==
    IF i = 0 THEN 0 ELSE RunningSum(percentages, i - 1) + percentages[i]

\* C18: the bucket is a value in 0..99 got from the key and the user's
\* percentage attribute alone; the option selected is the first whose running
\* sum exceeds the bucket, so one is selected whenever the percentages sum to
\* 100; when no running sum exceeds the bucket the evaluation fails with "Sum
\* of percentage option percentages is less than 100".
C18_PercentageSelection ==
    (Returned("eval_percentage") /\ "Identifier" \in DOMAIN evaluation.user) =>
        LET bucket ==
                from_str_radix_16(sha1_7[evaluation.key][evaluation.user["Identifier"]]) % 100
            ps == evaluation.percentages
            exceeding == {i \in 1..Len(ps) : RunningSum(ps, i) > bucket}
            first == CHOOSE i \in exceeding : \A j \in exceeding : i <= j
            ret == evaluation.ret[1]
        IN  /\ bucket \in 0..99
            /\ IF exceeding # {}
               THEN /\ ret.kind = "Success"
                    /\ ret.index = first
                    /\ ret.opt = <<OptionsOf(ps)[first]>>
               ELSE /\ ret.kind = "Fatal"
                    /\ ret.err = <<"Sum of percentage option percentages is less than 100">>
            /\ RunningSum(ps, Len(ps)) = 100 => ret.kind = "Success"

\* three options summing to 100, the bucket selects the last
C18_Witness ==
    /\ Returned("eval_percentage")
    /\ evaluation.percentages = <<20, 30, 50>>
    /\ evaluation.ret[1].kind = "Success"
    /\ evaluation.ret[1].index = 3

\* the parser accepted the cache string
Accepted == codec.ret # None /\ codec.ret[1].ok

\* the first field of the cache string
TimeField(s) == SubSeq(s, 1, find(s, NL) - 1)

\* a decimal number as to_string writes it: digits with no leading zero,
\* with a minus sign only before a number that is not zero
CanonicalDigits(t) == AllDigits(t) /\ (Len(t) = 1 \/ t[1] # "0")
Canonical(t) ==
    \/ CanonicalDigits(t)
    \/ t # <<>> /\ t[1] = "-" /\ CanonicalDigits(Tail(t)) /\ Tail(t) # <<"0">>

\* C19 as claimed: the cache string of the entry parsed from an accepted
\* string s, which is the string generated from its fetch time, etag and
\* JSON, is s.
C19_RoundTripAccepted == Accepted => codec.ret[1].entry.cache_str = codec.s

\* C19 amended: it is s exactly when the time field of s is the decimal form
\* to_string writes; an accepted time field with a plus sign, leading zeros
\* or "-0" is regenerated in that form, the etag and JSON fields unchanged.
C19_RoundTripCanonical ==
    Accepted =>
        LET entry == codec.ret[1].entry
            time_field == TimeField(codec.s)
            rest == SubSeq(codec.s, Len(time_field) + 1, Len(codec.s))
        IN  /\ (entry.cache_str = codec.s) <=> Canonical(time_field)
            /\ Canonical(TimeField(entry.cache_str))
            /\ parse_i64(TimeField(entry.cache_str)).val = parse_i64(time_field).val
            /\ entry.cache_str = TimeField(entry.cache_str) \o rest

\* an accepted string with a negative fetch time comes back as it was
C19_Witness ==
    /\ Accepted
    /\ codec.s = <<"-", "5", NL, "a", NL, "P">>
    /\ codec.ret[1].entry.cache_str = codec.s
    /\ codec.ret[1].entry.fetch_time = -5

\* C20: every record logged for a fetch or client error has the numeric id of
\* the error's kind as its event_id.
C20_EventIdIsKindId ==
    \A i \in 1..Len(fetcher.log) :
        fetcher.log[i].kind # "none" =>
            fetcher.log[i].event_id = ErrorKind[fetcher.log[i].kind]

\* C21: a setting whose rule has a prerequisite condition on a key that the
\* settings do not have, or with a comparison value that holds no value of the
\* prerequisite's type (the type it has after overrides), fails to evaluate:
\* the call reports an evaluation failure naming the cause and gives the
\* default, no value of the setting.
C21_PrerequisiteMissingOrMistyped ==
    ( /\ Returned("get_value_details")
      /\ HasPrereq(SettingsOf(evaluation.settings), evaluation.key) ) =>
        LET settings == SettingsOf(evaluation.settings)
            cond == PrereqOf(settings, evaluation.key)
            details == evaluation.ret[1].details
            flag == evaluation.ret[1].flag
            failure(msg) ==
                /\ ~flag.ok
                /\ flag.result.value = NoValue
                /\ details.is_default_value
                /\ details.value = default_of(evaluation.T)
                /\ details.error # <<>>
                /\ details.error[1].kind = "EvaluationFailure"
                /\ details.error[1].message =
                      <<"Failed to evaluate setting '", evaluation.key, "' (">> \o msg
                      \o <<")">>
        IN  /\ cond.flag_key \notin DOMAIN settings =>
                  failure(<<"Prerequisite flag is missing">>)
            /\ ( /\ cond.flag_key \in DOMAIN settings
                 /\ settings[cond.flag_key].setting_type \notin StoredTypes(cond.flag_value) )
               => failure(<<"Type mismatch between comparison value '",
                            display(cond.flag_value), "' and prerequisite flag '",
                            cond.flag_key, "'">>)

\* the prerequisite is a bool setting that an override made a string setting
C21_Witness ==
    /\ Returned("get_value_details")
    /\ evaluation.settings = "LocalOverRemote"
    /\ evaluation.key = "dep"
    /\ evaluation.T = "Bool"
    /\ ~evaluation.ret[1].flag.ok
    /\ evaluation.ret[1].details.is_default_value

\* task p's fetch_if_older goes from taking the lock to its decision
SyncStep(p) == pc[p] = "lock" /\ pc'[p] # "lock"

\* C22: in a fetch_if_older call without LocalOnly overrides that finds in
\* the cache a string that is not empty, parses and differs from the cache
\* string of the in-memory entry, the entry the freshness check is made on is
\* the entry parsed from the cache.
C22_CacheSyncReplaces ==
    [][\A p \in Tasks :
          ( /\ SyncStep(p)
            /\ ~is_local(behavior)
            /\ cache # <<>>
            /\ cache # cached_entry.cache_str
            /\ entry_from_cached_json(cache).ok )
          => cached_entry' = process_overrides(entry_from_cached_json(cache).entry, behavior)]_vars

\* C23: a fetch_if_older call of a service without LocalOnly overrides goes on
\* to the fetcher exactly when, after the cache sync, the entry's fetch time
\* is not after the threshold, the service is online and prefer_cached is
\* false; otherwise it fires the init signal and returns the current entry.
\* So a LazyLoad config() within the TTL of the entry's fetch time and a poll
\* tick that finds an entry younger than half the interval issue no request.
\* A request starts only after that decision, and the call that made one
\* fires the init signal when the fetcher has returned.
C23_FetchDecision ==
    [][\A p \in Tasks :
          /\ (SyncStep(p) /\ ~is_local(behavior)) =>
                /\ (pc'[p] = "send") <=>
                      ( /\ cached_entry'.fetch_time <= call[p].threshold
                        /\ ~offline
                        /\ ~call[p].prefer_cached )
                /\ pc'[p] # "send" =>
                      /\ pc'[p] = "idle"
                      /\ initialized'
                      /\ last'.status = "Ok"
                      /\ last'.outcome = "cached"
                      /\ last'.config = cached_entry'.config
                /\ ( /\ call[p].op = "config"
                     /\ polling_mode = "LazyLoad"
                     /\ cached_entry'.fetch_time > now - Interval ) => pc'[p] # "send"
                /\ ( /\ call[p].op = "poll"
                     /\ cached_entry'.fetch_time > now - (Interval \div 2) ) => pc'[p] # "send"
          /\ (pc[p] # "http" /\ pc'[p] = "http") => (pc[p] = "send" /\ ~is_local(behavior))
          /\ (pc[p] = "http" /\ pc'[p] # "http") => initialized']_vars

\* a LazyLoad config() call returned an entry fetched within the TTL without
\* going to the fetcher
C23_Witness ==
    /\ polling_mode = "LazyLoad"
    /\ last.op = "config"
    /\ last.outcome = "cached"
    /\ ~is_empty(cached_entry)
    /\ cached_entry.fetch_time > now - Interval
    /\ ~offline
    /\ initialized

\* the step in which task p's fetch_if_older handles the fetcher's response
ResponseStep(p) == pc[p] = "http" /\ pc'[p] # "http"

\* C24: when the fetcher returns a transient failure, fetch_if_older leaves
\* the in-memory entry as the cache sync left it, writes nothing to the
\* external cache and returns the error with the current entry's config and
\* fetch time.
C24_TransientFailureFrame ==
    [][\A p \in Tasks :
          (ResponseStep(p) /\ last'.outcome = "FailedTransient") =>
              /\ cached_entry' = cached_entry
              /\ cache' = cache
              /\ ~last'.written
              /\ last'.status = "FetchError"
              /\ last'.config = cached_entry.config
              /\ last'.fetch_time = cached_entry.fetch_time]_vars

\* a transient failure was returned with the snapshot fetched before it,
\* while the cache holds something else
C24_Witness ==
    /\ last.outcome = "FailedTransient"
    /\ last.status = "FetchError"
    /\ ~is_empty(cached_entry)
    /\ cached_entry = last.before
    /\ last.config = cached_entry.config
    /\ cache # cached_entry.cache_str

\* C25: when the fetcher returns a failure that is not transient and the
\* in-memory entry is not empty, the entry's fetch time becomes the current
\* time, its config and etag stay, its cache string is regenerated with the
\* new time and written to the external cache, and the error is returned to
\* the caller; with an empty entry nothing is changed or written.  The
\* offline flag and the cancellation token are left alone and the polling
\* task goes back to its loop.
C25_PermanentFailureBumps ==
    [][\A p \in Tasks :
          (ResponseStep(p) /\ last'.outcome = "FailedPermanent") =>
              /\ last'.status = "FetchError"
              /\ last'.config = cached_entry.config
              /\ IF ~is_empty(cached_entry)
                 THEN /\ cached_entry'.fetch_time = now
                      /\ cached_entry'.config = cached_entry.config
                      /\ cached_entry'.etag = cached_entry.etag
                      /\ cached_entry'.cache_str =
                            to_string(now) \o <<NL>> \o cached_entry.etag \o <<NL>>
                            \o JsonOf(cached_entry.cache_str)
                      /\ cache' = cached_entry'.cache_str
                      /\ last'.fetch_time = now
                 ELSE /\ cached_entry' = cached_entry
                      /\ cache' = cache
              /\ offline' = offline
              /\ cancelled' = cancelled
              /\ pc'[PollTask] = IF p = PollTask THEN "idle" ELSE pc[PollTask]]_vars

\* refresh() of an AutoPoll client came back with the failure, the entry
\* bumped and written, the service online and the polling task in its loop
C25_Witness ==
    /\ last.outcome = "FailedPermanent"
    /\ last.op = "refresh"
    /\ last.status = "FetchError"
    /\ ~is_empty(last.before)
    /\ last.before.fetch_time < now
    /\ cached_entry.fetch_time = now
    /\ cache = cached_entry.cache_str
    /\ ~offline
    /\ polling_mode = "AutoPoll"
    /\ pc[PollTask] = "idle"

\* the step of a fetch call that makes one HTTP exchange, and the last
\* exchange of the call
ExchangeStep == Len(fetcher'.exchanges) = Len(fetcher.exchanges) + 1
LastExchange == fetcher.exchanges[Len(fetcher.exchanges)]

\* the response of an exchange is a fetched config with preferences
HasPreferences(x) == x.response.kind = "Fetched" /\ x.response.preferences # None
PreferencesOf(x) == x.response.preferences[1]

\* the response of an exchange names a preferences URL other than the URL
\* the request went to, with one of the given redirect values
NamesOtherUrl(x, redirects) ==
    /\ HasPreferences(x)
    /\ PreferencesOf(x).url # None
    /\ PreferencesOf(x).url # Some(x.request.url)
    /\ PreferencesOf(x).redirect \in {Some(r) : r \in redirects}

\* the call returned the response of its last exchange / goes round again
ReturnsLast == fetcher.pc = "done" /\ fetcher.ret = Some(LastExchange.response)
GoesRound == fetcher.pc = "fetch" /\ fetcher.ret = None

Warning3002 == LogRecord("warn", 3002, "none")

\* C26 as claimed: with a non-custom base URL, a response that names another
\* preferences URL with redirect Should makes the call set the base URL, warn
\* 3002 and return that response.
C26_ShouldReturns ==
    [][(ExchangeStep /\ ~fetcher.is_custom_url /\ NamesOtherUrl(LastExchange', {"Should"})) =>
          /\ fetcher'.fetch_url = PreferencesOf(LastExchange').url[1]
          /\ fetcher'.log = Append(fetcher.log, Warning3002)
          /\ ReturnsLast']_vars

\* C26 amended: with a non-custom base URL, a response that names another
\* preferences URL with redirect Should makes the call set the base URL, warn
\* 3002 and go round its loop again without returning; every response of a
\* call but its last had redirect Should or Force, so these two, and not
\* Force alone, make the same call issue another request.
C26_ShouldWarnsAndGoesRound ==
    [][ExchangeStep =>
          /\ (~fetcher.is_custom_url /\ NamesOtherUrl(LastExchange', {"Should"})) =>
                /\ fetcher'.fetch_url = PreferencesOf(LastExchange').url[1]
                /\ fetcher'.log = Append(fetcher.log, Warning3002)
                /\ GoesRound'
                /\ fetcher'.iteration = fetcher.iteration + 1
          /\ \A i \in 1..Len(fetcher.exchanges) :
                /\ HasPreferences(fetcher.exchanges[i])
                /\ PreferencesOf(fetcher.exchanges[i]).redirect \in {Some("Should"), Some("Force")}
          /\ LastExchange'.request.url = fetcher.fetch_url]_vars

\* a call on the global URL was sent to the eu URL with redirect Should,
\* warned, and made its second request there
C26_Witness ==
    /\ ~fetcher.is_custom_url
    /\ fetcher.pc = "done"
    /\ Len(fetcher.exchanges) = 2
    /\ fetcher.exchanges[1].request.url = "global"
    /\ NamesOtherUrl(fetcher.exchanges[1], {"Should"})
    /\ PreferencesOf(fetcher.exchanges[1]).url = Some("eu")
    /\ fetcher.exchanges[2].request.url = "eu"
    /\ fetcher.log = <<Warning3002>>
    /\ ReturnsLast

\* C27: with a non-custom base URL, every request goes to the base URL of the
\* moment; a response that names another preferences URL with redirect Should
\* or Force moves the base URL there and keeps the call going, so that its
\* next request goes to that URL; a response whose preferences URL is the URL
\* requested is returned, whatever its redirect; a response with redirect No
\* is returned.
C27_RedirectFollowed ==
    [][(ExchangeStep /\ ~fetcher.is_custom_url) =>
          /\ LastExchange'.request.url = fetcher.fetch_url
          /\ NamesOtherUrl(LastExchange', {"Should", "Force"}) =>
                /\ fetcher'.fetch_url = PreferencesOf(LastExchange').url[1]
                /\ GoesRound'
          /\ (HasPreferences(LastExchange')
                /\ PreferencesOf(LastExchange').url = Some(LastExchange'.request.url)) =>
                /\ ReturnsLast'
                /\ fetcher'.fetch_url = fetcher.fetch_url
          /\ NamesOtherUrl(LastExchange', {"No"}) => ReturnsLast']_vars

\* a call on the global URL was forced to the eu URL and returned the response
\* of the eu server, which names the eu URL, also with redirect Force
C27_Witness ==
    /\ ~fetcher.is_custom_url
    /\ Len(fetcher.exchanges) = 2
    /\ fetcher.exchanges[1].request.url = "global"
    /\ NamesOtherUrl(fetcher.exchanges[1], {"Force"})
    /\ fetcher.exchanges[2].request.url = "eu"
    /\ HasPreferences(LastExchange)
    /\ PreferencesOf(LastExchange) = [url |-> Some("eu"), redirect |-> Some("Force")]
    /\ ReturnsLast
    /\ fetcher.fetch_url = "eu"

\* the response of an exchange requires another attempt of the fetcher f
RequiresAnotherAttempt(f, x) ==
    /\ NamesOtherUrl(x, {"Should", "Force"})
    /\ ~(f.is_custom_url /\ (f.proxy_key \/ PreferencesOf(x).redirect # Some("Force")))

\* C28: a fetch call makes at most three HTTP exchanges, one per iteration of
\* its loop; a call whose third response still requires another attempt
\* returns Failed(RedirectLoop, transient), a response that carries no config,
\* and only such a call returns RedirectLoop.
C28_AtMostThreeRequests ==
    /\ Len(fetcher.exchanges) <= 3
    /\ fetcher.iteration <= Len(fetcher.exchanges)
    /\ (fetcher.pc = "fetch" => fetcher.iteration = Len(fetcher.exchanges))
    /\ (fetcher.pc = "done" /\ Len(fetcher.exchanges) = 3
          /\ RequiresAnotherAttempt(fetcher, LastExchange)) =>
            /\ fetcher.ret[1].kind = "Failed"
            /\ fetcher.ret[1].err = "RedirectLoop"
            /\ fetcher.ret[1].transient
            /\ fetcher.ret[1].preferences = None
    /\ (fetcher.pc = "done" /\ fetcher.ret[1].err = "RedirectLoop") =>
            Len(fetcher.exchanges) = 3

\* three servers in a row sent the call on, and it gave up
C28_Witness ==
    /\ fetcher.pc = "done"
    /\ Len(fetcher.exchanges) = 3
    /\ \A i \in 1..3 : RequiresAnotherAttempt(fetcher, fetcher.exchanges[i])
    /\ fetcher.exchanges[3].request.url # fetcher.exchanges[2].request.url
    /\ fetcher.ret = Some(Failed("RedirectLoop", TRUE))

\* C29: a fetcher with a custom base URL sends every request to its base URL
\* and changes it only on a response with redirect Force while the SDK key
\* is not a proxy key; with a proxy key, or on a response with another
\* redirect, the base URL stays and that response is returned, so that with
\* a proxy key a call makes one request only.
C29_CustomUrlRespected ==
    [][fetcher.is_custom_url =>
          /\ (fetcher'.fetch_url # fetcher.fetch_url) =>
                /\ ExchangeStep
                /\ ~fetcher.proxy_key
                /\ NamesOtherUrl(LastExchange', {"Force"})
          /\ ExchangeStep =>
                /\ LastExchange'.request.url = fetcher.fetch_url
                /\ (\/ fetcher.proxy_key
                    \/ ~HasPreferences(LastExchange')
                    \/ PreferencesOf(LastExchange').redirect # Some("Force")) =>
                      /\ fetcher'.fetch_url = fetcher.fetch_url
                      /\ ReturnsLast'
                /\ fetcher.proxy_key => (ReturnsLast' /\ Len(fetcher'.exchanges) = 1)]_vars

\* a proxy answered with redirect Force to another URL: the response was
\* returned and the custom URL kept
C29_Witness ==
    /\ fetcher.is_custom_url /\ fetcher.proxy_key
    /\ Len(fetcher.exchanges) = 1
    /\ NamesOtherUrl(LastExchange, {"Force"})
    /\ fetcher.fetch_url = LastExchange.request.url
    /\ ReturnsLast

\* C30: every HTTP exchange is classified by what the HTTP client gave back:
\* 200 with a body that parses is Fetched with the ETag header of the
\* response (empty without one); 200 with a body that does not parse or
\* cannot be read is Failed(InvalidHttpResponseContent), transient; 304 is
\* NotModified; 403 and 404 are Failed(InvalidSdkKey), not transient; another
\* status is Failed(UnexpectedHttpResponse), transient; a timeout is
\* Failed(HttpRequestTimeout), transient; another transport error is
\* Failed(HttpRequestFailure), transient.  No other failure than
\* InvalidSdkKey is not transient, and the request has an If-None-Match
\* header, holding the supplied etag, exactly when that etag is not empty.
C30_ExchangeClassified ==
    \A i \in 1..Len(fetcher.exchanges) :
        LET http == fetcher.exchanges[i].http
            response == fetcher.exchanges[i].response
            request == fetcher.exchanges[i].request
            IsFailed(err, transient) ==
                response.kind = "Failed" /\ response.err = err /\ response.transient = transient
        IN  /\ (http.result = "Ok" /\ http.status = 200 /\ http.body = "valid") =>
                  /\ response.kind = "Fetched"
                  /\ response.etag = IF http.etag = None THEN "" ELSE http.etag[1]
                  /\ response.preferences = http.preferences
            /\ (http.result = "Ok" /\ http.status = 200 /\ http.body # "valid") =>
                  IsFailed("InvalidHttpResponseContent", TRUE)
            /\ (http.result = "Ok" /\ http.status = 304) => response.kind = "NotModified"
            /\ (http.result = "Ok" /\ http.status \in {403, 404}) =>
                  IsFailed("InvalidSdkKey", FALSE)
            /\ (http.result = "Ok" /\ http.status \notin {200, 304, 403, 404}) =>
                  IsFailed("UnexpectedHttpResponse", TRUE)
            /\ http.result = "Timeout" => IsFailed("HttpRequestTimeout", TRUE)
            /\ http.result = "Error" => IsFailed("HttpRequestFailure", TRUE)
            /\ (response.kind = "Failed" /\ ~response.transient) =>
                  response.err = "InvalidSdkKey"
            /\ (request.if_none_match # None) <=> (fetcher.etag # "")
            /\ request.if_none_match # None => request.if_none_match = Some(fetcher.etag)

\* a call with an etag got a config with an ETag from a first server and a
\* 403 from the server it was sent on to, both requests being conditional
C30_Witness ==
    /\ fetcher.pc = "done"
    /\ fetcher.etag = "etag-1"
    /\ Len(fetcher.exchanges) = 2
    /\ fetcher.exchanges[1].request.if_none_match = Some("etag-1")
    /\ fetcher.exchanges[1].response.kind = "Fetched"
    /\ fetcher.exchanges[1].response.etag = "etag-2"
    /\ fetcher.exchanges[2].http.status = 403
    /\ fetcher.ret = Some(Failed("InvalidSdkKey", FALSE))

\* the number of newlines of a string, and the strings that are integers: an
\* optional sign before one digit or more
Newlines(s) == Cardinality({i \in 1..Len(s) : s[i] = NL})
IsInteger(t) == AllDigits(t) \/ (t # <<>> /\ t[1] \in {"+", "-"} /\ AllDigits(Tail(t)))
IntegerOf(t) ==
    IF t[1] = "-" THEN 0 - DigitsToNat(Tail(t))
    ELSE IF t[1] = "+" THEN DigitsToNat(Tail(t))
    ELSE DigitsToNat(t)
OutOfRange(n) == n <= MIN_UTC \/ n >= MAX_UTC

\* C31 as claimed: the parser rejects every string with fewer than two
\* newlines, with a first line that is no integer, or with an integer that is
\* negative or outside the time range.
C31_RejectsNegative ==
    ( /\ codec.ret # None
      /\ \/ Newlines(codec.s) < 2
         \/ ~IsInteger(TimeField(codec.s))
         \/ IntegerOf(TimeField(codec.s)) < 0
         \/ OutOfRange(IntegerOf(TimeField(codec.s))) ) => ~codec.ret[1].ok

\* C31 amended: the parser rejects every string with fewer than two newlines,
\* with a first line that is no integer, or with an integer outside the time
\* range; a negative integer inside the range is accepted as the entry's
\* fetch time when the JSON field parses.  A cache string the parser rejects
\* is never installed: the cache sync leaves the in-memory entry as it was,
\* and warning 2201 is logged when the string is neither empty nor the
\* in-memory cache string.
C31_RejectsMalformed ==
    /\ codec.ret # None =>
          /\ ( \/ Newlines(codec.s) < 2
               \/ ~IsInteger(TimeField(codec.s))
               \/ OutOfRange(IntegerOf(TimeField(codec.s))) ) => ~codec.ret[1].ok
          /\ ( /\ Newlines(codec.s) >= 2
               /\ IsInteger(TimeField(codec.s))
               /\ IntegerOf(TimeField(codec.s)) < 0
               /\ ~OutOfRange(IntegerOf(TimeField(codec.s)))
               /\ codec.ret[1].ok ) =>
                  codec.ret[1].entry.fetch_time = IntegerOf(TimeField(codec.s))
    /\ (codec.synced # None /\ ~entry_from_cached_json(codec.s).ok) =>
          /\ codec.synced = Some(codec.entry)
          /\ codec.log = IF codec.s = <<>> \/ codec.s = codec.entry.cache_str
                         THEN <<>> ELSE <<2201>>
    /\ (codec.synced # None /\ codec.log = <<2201>>) => ~entry_from_cached_json(codec.s).ok

\* a cache string whose time is outside the range was read against an entry
\* in memory: it was rejected with warning 2201 and the entry kept
C31_Witness ==
    /\ codec.synced # None
    /\ codec.s = <<"1", "0", "0", "0", NL, "a", NL, "Q">>
    /\ ~is_empty(codec.entry)
    /\ codec.synced = Some(codec.entry)
    /\ codec.log = <<2201>>

\* the keys a cycle message names, in order
ChainOf(err) == [i \in 1..((Len(err) + 1) \div 4) |-> err[4 * i - 2]]

\* the evaluator's error is a chain of quoted keys
IsCycleError(result) == ~result.ok /\ result.err # <<>> /\ result.err[1] = "'"

\* the keys the prerequisite conditions of setting k name
Refs(settings, k) ==
    {settings[k].targeting_rules[r].conditions[1][c].prerequisite_flag_condition[1].flag_key :
        <<r, c>> \in {rc \in (1..3) \X (1..2) :
            /\ rc[1] <= Len(settings[k].targeting_rules)
            /\ settings[k].targeting_rules[rc[1]].conditions # None
            /\ rc[2] <= Len(settings[k].targeting_rules[rc[1]].conditions[1])
            /\ settings[k].targeting_rules[rc[1]].conditions[1][rc[2]]
                  .prerequisite_flag_condition # None}}

\* C32: a cycle error names a chain that starts at the evaluated key, follows
\* prerequisite conditions from setting to setting and ends at the one key it
\* holds twice.  Cycles that are not executed give none: a setting that does
\* not reach the cycle of the catalog, a cyclic prerequisite behind a
\* condition that does not match or in a rule after the rule that matches, a
\* prerequisite reached on two paths, a prerequisite asked for twice by one
\* rule; the same cyclic prerequisite in a rule after one that does not match
\* is executed and reported.  A prerequisite condition that completes
\* without error leaves the cycle tracker as it found it.
C32_CycleOnlyOnExecutedChain ==
    /\ Returned("eval_prerequisite_cond") =>
          (evaluation.ret[1].kind # "Fatal" =>
              evaluation.ret[1].tracker = evaluation.cycle_tracker)
    /\ Returned("get_value_details") =>
          LET settings == SettingsOf(evaluation.settings)
              result == evaluation.ret[1].flag.result
              chain == ChainOf(result.err)
          IN  /\ IsCycleError(result) =>
                    /\ Len(chain) >= 2
                    /\ chain[1] = evaluation.key
                    /\ \A i \in 1..(Len(chain) - 1) : chain[i + 1] \in Refs(settings, chain[i])
                    /\ \E j \in 1..(Len(chain) - 1) : chain[j] = chain[Len(chain)]
                    /\ \A i, j \in 1..(Len(chain) - 1) : chain[i] = chain[j] => i = j
              /\ evaluation.ret[1].flag.ok => result.tracker = <<>>
              /\ (evaluation.settings = "Catalog"
                    /\ evaluation.key \in {"plainBool", "dep", "shortCut", "afterMatch",
                                           "diaL", "diaR", "diaTop", "sib"}) =>
                    /\ evaluation.ret[1].flag.ok
                    /\ result.value =
                          Value("Bool", IF evaluation.key = "shortCut" THEN "false" ELSE "true")
              /\ (evaluation.settings \in {"Catalog", "LocalOverRemote"}
                    /\ evaluation.key \in {"shortCut", "afterMatch", "diaTop", "sib"}) =>
                    ~IsCycleError(result)
              /\ (evaluation.settings = "Catalog" /\ evaluation.key = "laterCycle") =>
                    /\ IsCycleError(result)
                    /\ chain = <<"laterCycle", "key2", "key3", "key2">>

\* the second prerequisite of the diamond, evaluated on the tracker its
\* first prerequisite left, matched and left the tracker as it was
C32_Witness ==
    /\ Returned("eval_prerequisite_cond")
    /\ evaluation.site = <<"diaTop", 1, 2>>
    /\ evaluation.cycle_tracker = <<"top">>
    /\ evaluation.ret[1].kind = "Success" /\ evaluation.ret[1].matched
    /\ evaluation.ret[1].tracker = <<"top">>
    /\ evaluation.ret[1].deepest = 3

\* what a targeting rule comes to for a user, told from the results of its
\* conditions taken one by one: "skip" when it has no conditions, when the
\* first of its conditions that does not match is neither fatal nor an
\* invalid comparison value, or when all match and its percentage options
\* cannot be applied for want of a user or of the attribute; "error" when that
\* first condition is fatal or has an invalid comparison value, when all
\* match and the rule has nothing to serve or its percentage options fail;
\* "value" when all match and it has a value or an option to serve
RuleConditions(rule) == IF rule.conditions = None THEN <<>> ELSE rule.conditions[1]
ConditionAlone(rule, c, key, user, settings) ==
    condition_result(RuleConditions(rule)[c], key, user, settings, <<>>)
NonMatching(rule, key, user, settings) ==
    {c \in 1..Len(RuleConditions(rule)) :
        ~( /\ ConditionAlone(rule, c, key, user, settings).kind = "Success"
           /\ ConditionAlone(rule, c, key, user, settings).matched )}
FirstOf(S) == CHOOSE c \in S : \A d \in S : c <= d
RuleComesTo(rule, setting, key, user, settings) ==
    IF rule.conditions = None THEN "skip"
    ELSE IF NonMatching(rule, key, user, settings) # {}
    THEN IF ConditionAlone(rule, FirstOf(NonMatching(rule, key, user, settings)),
                           key, user, settings).kind \in {"Fatal", "CompValInvalid"}
         THEN "error" ELSE "skip"
    ELSE IF rule.served_value # None THEN "value"
    ELSE IF rule.percentage_options = None THEN "error"
    ELSE IF user = None THEN "skip"
    ELSE IF eval_percentage(rule.percentage_options[1], user[1], key,
                            setting.percentage_attribute).kind = "Success" THEN "value"
    ELSE IF eval_percentage(rule.percentage_options[1], user[1], key,
                            setting.percentage_attribute).kind = "Fatal" THEN "error"
    ELSE "skip"

\* the SettingValue a rule that comes to a value serves
RuleServes(rule, setting, key, user) ==
    IF rule.served_value # None THEN rule.served_value[1]
    ELSE eval_percentage(rule.percentage_options[1], user[1], key,
                         setting.percentage_attribute).opt[1].served_value

\* the SettingValue of a setting none of whose rules decides: the option its
\* percentage options select for the user, otherwise its default value
TailServes(setting, key, user) ==
    IF /\ setting.percentage_options # None
       /\ user # None
       /\ eval_percentage(setting.percentage_options[1], user[1], key,
                          setting.percentage_attribute).kind = "Success"
    THEN eval_percentage(setting.percentage_options[1], user[1], key,
                         setting.percentage_attribute).opt[1].served_value
    ELSE setting.value

\* the rules of the evaluated setting that do not come to "skip"
Deciding(setting, key, user, settings) ==
    {r \in 1..Len(setting.targeting_rules) :
        RuleComesTo(setting.targeting_rules[r], setting, key, user, settings) # "skip"}

\* an evaluation of a key the settings have
Evaluated ==
    /\ Returned("get_value_details")
    /\ evaluation.key \in DOMAIN SettingsOf(evaluation.settings)

\* C33: the first targeting rule, in declaration order, that does not come
\* to "skip" decides the evaluation: its served value or the percentage
\* option selected in it is the result, or its error is.  What a rule comes
\* to depends on its conditions up to the first that does not match only, so
\* the conditions combine with AND from left to right and none after that
\* one counts.  When every rule is skipped the percentage options of the
\* setting select the value, and otherwise its default value is returned.
C33_FirstMatchingRule ==
    Evaluated =>
        LET settings == SettingsOf(evaluation.settings)
            setting == settings[evaluation.key]
            deciding == Deciding(setting, evaluation.key, evaluation.user, settings)
            first == setting.targeting_rules[FirstOf(deciding)]
            result == evaluation.ret[1].flag.result
            served == IF deciding # {}
                      THEN RuleServes(first, setting, evaluation.key, evaluation.user)
                      ELSE TailServes(setting, evaluation.key, evaluation.user)
        IN  IF deciding # {}
               /\ RuleComesTo(first, setting, evaluation.key, evaluation.user, settings) = "error"
            THEN ~result.ok
            ELSE IF result.ok
            THEN /\ result.reached = Some([value |-> served, declared |-> setting.setting_type])
                 /\ Some(result.value) = as_val(served, setting.setting_type)
            ELSE \/ as_val(served, setting.setting_type) = None
                 \/ /\ deciding = {}
                    /\ setting.percentage_options # None
                    /\ evaluation.user # None
                    /\ eval_percentage(setting.percentage_options[1], evaluation.user[1],
                                       evaluation.key, setting.percentage_attribute).kind = "Fatal"

\* two rules match the user and the first is served
C33_Witness ==
    /\ Evaluated
    /\ evaluation.settings = "Catalog"
    /\ evaluation.key = "ordered"
    /\ evaluation.user = Some([Version |-> V123])
    /\ Deciding(CatalogSettings["ordered"], "ordered", evaluation.user, CatalogSettings) = {1, 2}
    /\ evaluation.ret[1].flag.result.value = Value("String", "r1")

\* the rules of a setting all of whose conditions match but whose percentage
\* options cannot be applied, the user or the percentage attribute missing
PercentageSkipped(setting, key, user, settings) ==
    {r \in 1..Len(setting.targeting_rules) :
        /\ setting.targeting_rules[r].conditions # None
        /\ NonMatching(setting.targeting_rules[r], key, user, settings) = {}
        /\ setting.targeting_rules[r].served_value = None
        /\ setting.targeting_rules[r].percentage_options # None
        /\ \/ user = None
           \/ eval_percentage(setting.targeting_rules[r].percentage_options[1], user[1], key,
                              setting.percentage_attribute).kind = "UserAttrMissing"}

\* C34: a rule whose conditions all match and that has percentage options is
\* passed over when the user or the percentage attribute is missing: if the
\* rules before it were skipped, the evaluation gives what the setting gives
\* with the rules after it alone, be it one of them, the setting's
\* percentage options or its default value, and it does not fail for that
\* rule.
C34_PercentageRuleSkipped ==
    Evaluated =>
        LET settings == SettingsOf(evaluation.settings)
            setting == settings[evaluation.key]
            rules == setting.targeting_rules
            result == evaluation.ret[1].flag.result
        IN  /\ \A r \in PercentageSkipped(setting, evaluation.key, evaluation.user, settings) :
                  (\A q \in 1..(r - 1) :
                      RuleComesTo(rules[q], setting, evaluation.key, evaluation.user,
                                  settings) = "skip") =>
                      LET rest == [setting EXCEPT !.targeting_rules =
                                                     SubSeq(rules, r + 1, Len(rules))]
                          expected == eval(rest, evaluation.key, evaluation.user, settings)
                      IN  /\ result.ok = expected.ok
                          /\ result.value = expected.value
                          /\ result.err = expected.err
            /\ (evaluation.settings = "Catalog" /\ evaluation.key \in {"pctRule", "pctOnly"}
                  /\ (evaluation.user = None \/ "Identifier" \notin DOMAIN evaluation.user[1])) =>
                  /\ PercentageSkipped(setting, evaluation.key, evaluation.user, settings) = {1}
                  /\ result.ok
                  /\ result.value =
                        Value("String", IF evaluation.key = "pctRule" THEN "r2" ELSE "d")

\* a user without the Identifier attribute got the value of the rule after
\* the rule with percentage options, not an option of the setting
C34_Witness ==
    /\ Evaluated
    /\ evaluation.settings = "Catalog"
    /\ evaluation.key = "pctRule"
    /\ evaluation.user = Some([Version |-> V123])
    /\ evaluation.ret[1].flag.ok
    /\ evaluation.ret[1].flag.result.value = Value("String", "r2")
    /\ evaluation.ret[1].details.error = None

\* the rules of a setting whose first condition that does not match has a
\* result of one of the given kinds
StoppedBy(kinds, setting, key, user, settings) ==
    {r \in 1..Len(setting.targeting_rules) :
        /\ NonMatching(setting.targeting_rules[r], key, user, settings) # {}
        /\ ConditionAlone(setting.targeting_rules[r],
                          FirstOf(NonMatching(setting.targeting_rules[r], key, user, settings)),
                          key, user, settings).kind \in kinds}

\* the rules before rule r were all skipped
ReachesRule(r, setting, key, user, settings) ==
    \A q \in 1..(r - 1) :
        RuleComesTo(setting.targeting_rules[q], setting, key, user, settings) = "skip"

\* the evaluation gives what the setting gives with the rules after rule r
\* alone
ContinuesAfter(r) ==
    LET settings == SettingsOf(evaluation.settings)
        setting == settings[evaluation.key]
        rest == [setting EXCEPT !.targeting_rules =
                                   SubSeq(setting.targeting_rules, r + 1,
                                          Len(setting.targeting_rules))]
        expected == eval(rest, evaluation.key, evaluation.user, settings)
        result == evaluation.ret[1].flag.result
    IN  /\ result.ok = expected.ok
        /\ result.value = expected.value
        /\ result.err = expected.err

\* C35 as claimed: a rule stopped by a condition that is NoUser, AttrMissing,
\* AttrInvalid or CompValInvalid is skipped and the evaluation goes on with
\* the rule after it.
C35_InvalidComparisonSkips ==
    Evaluated =>
        LET settings == SettingsOf(evaluation.settings)
            setting == settings[evaluation.key]
        IN  \A r \in StoppedBy({"NoUser", "AttrMissing", "AttrInvalid", "CompValInvalid"},
                               setting, evaluation.key, evaluation.user, settings) :
                ReachesRule(r, setting, evaluation.key, evaluation.user, settings) =>
                    ContinuesAfter(r)

\* C35 amended: a rule stopped by a condition that is NoUser, AttrMissing or
\* AttrInvalid is skipped and the evaluation goes on with the rule after it;
\* a rule stopped by a condition that is CompValInvalid or Fatal ends the
\* evaluation with an error, for CompValInvalid the error "Comparison value
\* is missing or invalid", which the caller gets as an EvaluationFailure.
C35_SkipsOrAborts ==
    Evaluated =>
        LET settings == SettingsOf(evaluation.settings)
            setting == settings[evaluation.key]
            result == evaluation.ret[1].flag.result
        IN  /\ \A r \in StoppedBy({"NoUser", "AttrMissing", "AttrInvalid"},
                                  setting, evaluation.key, evaluation.user, settings) :
                  ReachesRule(r, setting, evaluation.key, evaluation.user, settings) =>
                      ContinuesAfter(r)
            /\ \A r \in StoppedBy({"CompValInvalid"},
                                  setting, evaluation.key, evaluation.user, settings) :
                  ReachesRule(r, setting, evaluation.key, evaluation.user, settings) =>
                      /\ ~result.ok
                      /\ result.err = <<"Comparison value is missing or invalid">>
                      /\ evaluation.ret[1].details.error # None
                      /\ evaluation.ret[1].details.error[1].kind = "EvaluationFailure"
                      /\ evaluation.ret[1].details.is_default_value
            /\ \A r \in StoppedBy({"Fatal"},
                                  setting, evaluation.key, evaluation.user, settings) :
                  ReachesRule(r, setting, evaluation.key, evaluation.user, settings) =>
                      ~result.ok
            /\ (evaluation.settings = "Catalog" /\ evaluation.key = "skipper"
                  /\ evaluation.user \notin {Some([Version |-> V123]),
                                             Some([Identifier |-> "u0", Version |-> V123])}) =>
                  /\ StoppedBy({"NoUser", "AttrMissing", "AttrInvalid", "Success"},
                               setting, evaluation.key, evaluation.user, settings) = {1}
                  /\ result.ok /\ result.value = Value("String", "r2")

\* a rule whose condition has no comparison value was reached by a user with
\* the attribute: the evaluation failed though the next rule matches
C35_Witness ==
    /\ Evaluated
    /\ evaluation.settings = "Catalog"
    /\ evaluation.key = "compInvalid"
    /\ evaluation.user = Some([Version |-> V123])
    /\ ~evaluation.ret[1].flag.ok
    /\ evaluation.ret[1].flag.result.err = <<"Comparison value is missing or invalid">>
    /\ evaluation.ret[1].details.is_default_value
    /\ RuleComesTo(CatalogSettings["compInvalid"].targeting_rules[2],
                   CatalogSettings["compInvalid"], "compInvalid", evaluation.user,
                   CatalogSettings) = "value"

\* C36: for the hashed array comparators with a salt, the condition holds an
\* item of the user's list to be contained exactly when the salted SHA-256
\* hash of the item is one of the comparison values: ArrayContainsAnyOfHashed
\* matches exactly when some item is contained, ArrayNotContainsAnyOfHashed
\* exactly when none is.
C36_HashedItemsOnly ==
    ( /\ Returned("eval_array_contains")
      /\ is_sensitive(evaluation.comp)
      /\ evaluation.salt # None ) =>
        LET contained ==
                \E i \in 1..Len(evaluation.user_val), j \in 1..Len(evaluation.comp_val) :
                    sha256(evaluation.user_val[i], evaluation.salt[1], "flag")
                        = evaluation.comp_val[j]
        IN  /\ evaluation.ret[1].kind = "Success"
            /\ evaluation.ret[1].matched =
                  IF evaluation.comp = "ArrayContainsAnyOfHashed" THEN contained ELSE ~contained

\* the tasks whose fetch_if_older is inside state.fetcher.fetch
InFlight == {p \in Tasks : pc[p] \in {"send", "http"}}

\* task p takes the entry lock in this step and goes on to the fetcher
TakesLockAndFetches(p) == pc[p] = "lock" /\ pc'[p] = "send"

\* the cache sync of this step takes an entry of another etag over from the
\* external cache
SyncTakesOver ==
    /\ cached_entry' = cache_sync(cached_entry, cache, behavior)
    /\ ~entry_eq(cached_entry', cached_entry)
    /\ cached_entry'.cache_str = cache

\* C37 as stated: at most one fetch is in flight, and a call that takes the
\* lock while the in-memory entry has a fetch_time above the call's threshold
\* does not go on to the fetcher.
C37_NoSecondFetch ==
    [][ /\ Cardinality(InFlight') <= 1
        /\ \A p \in Tasks :
              (TakesLockAndFetches(p) /\ ~is_local(behavior))
                  => ~(cached_entry.fetch_time > call[p].threshold) ]_vars

\* C37: at most one fetch is in flight at any time; the fetcher is entered
\* only from the step that takes the entry lock, while no other task holds it;
\* a call that takes the lock goes on to the fetcher only if the entry it
\* holds after the cache sync has a fetch_time not above its threshold, so a
\* call finding an entry above its threshold fetches only when the sync has
\* taken an older entry of another etag over from the external cache.
C37_SerializedFetch ==
    [][ /\ Cardinality(InFlight') <= 1
        /\ \A p \in Tasks :
              /\ (pc'[p] = "send" /\ pc[p] # "send") => (pc[p] = "lock" /\ InFlight = {})
              /\ (TakesLockAndFetches(p) /\ ~is_local(behavior))
                    => /\ ~(cached_entry'.fetch_time > call[p].threshold)
                       /\ cached_entry.fetch_time > call[p].threshold => SyncTakesOver ]_vars

\* a poll tick's fetch is in flight while a config() call waits for the lock
C37_Witness ==
    /\ pc[PollTask] = "http"
    /\ pc["c1"] = "lock"
    /\ call["c1"].op = "config"
    /\ InFlight = {PollTask}

\* this step is the cache sync of a fetch_if_older or determine_cache_state
SyncingStep == \E p \in Tasks : pc[p] \in {"lock", "dcs"} /\ pc'[p] # pc[p]

ConfigAfterNoFlagData(p) ==
    /\ last.task = p
    /\ last.op = "wait"
    /\ last.status = "NoFlagData"
    /\ pc[p] = "idle"
    /\ pc'[p] = "lock"
    /\ call'[p].op = "config"

\* C39: a config() call made directly after wait_for_init returned
\* NoFlagData, taking the entry lock at once and returning without an HTTP
\* request, returns a snapshot with no settings, in every polling mode and
\* whether the service was constructed online or offline.
C39_NoFlagDataThenNoSettings ==
    [][ \A p \in Callers :
          ConfigAfterNoFlagData(p) =>
              LET entry == cache_sync(cached_entry, cache, behavior)
              IN  serves_current(entry, call'[p].threshold, offline,
                                 call'[p].prefer_cached)
                      => entry.config = NoSettings ]_vars

\* C40: every evaluation returns, with a value or with an error, and the
\* cycle tracker, which holds one key for each nested prerequisite evaluation
\* under way plus the revisited key once a cycle is found, never grows longer
\* than the number of setting keys plus one.
C40_TerminatesWithinDepth ==
    Returned("get_value_details") =>
        LET flag == evaluation.ret[1].flag
            settings == SettingsOf(evaluation.settings)
        IN  /\ flag.ok <=> flag.err.kind = "NoError"
            /\ flag.ok => flag.result.ok
            /\ ~flag.ok => (evaluation.ret[1].details.error # None
                              /\ evaluation.ret[1].details.is_default_value)
            /\ flag.result.deepest <= Cardinality(DOMAIN settings) + 1

\* the ring of three settings, evaluated from ringA, ends with the cycle
\* error once the tracker holds the three keys and ringA again
C40_Witness ==
    /\ Evaluated
    /\ evaluation.settings = "Ring"
    /\ evaluation.key = "ringA"
    /\ ~evaluation.ret[1].flag.ok
    /\ IsCycleError(evaluation.ret[1].flag.result)
    /\ ChainOf(evaluation.ret[1].flag.result.err) = <<"ringA", "ringB", "ringC", "ringA">>
    /\ evaluation.ret[1].flag.result.deepest = Cardinality(DOMAIN RingSettings) + 1

====
